---- MODULE Spec2Model ----
(***************************************************************************)
(* A model of the MEV classification pipeline of brontes:                  *)
(*   - the range executor (crates/bin/src/executors/range.rs), driven by   *)
(*     the state collector of spec section 4.3;                            *)
(*   - the time-window VWAP pricer                                         *)
(*     (crates/brontes-types/src/db/cex/trades/time_window_vwam.rs).       *)
(***************************************************************************)
EXTENDS Integers, Sequences, FiniteSets, TLC

(***************************************************************************)
(* Bounds of the model.                                                    *)
(***************************************************************************)
\* Block numbers handed to the constructor range over 0..MaxBlock.
MaxBlock == 2

\* The volume a price is asked for ranges over 1..MaxVol.
MaxVol == 3

\* The flattened swap list of an atomic arbitrage has at most MaxSwaps swaps.
MaxSwaps == 3

\* A transaction handed to the CEX/DEX inspector has 1..MaxCexSwaps swaps.
MaxCexSwaps == 2

\* The iterator under FlattenSpecified holds at most MaxItems items.
MaxItems == 3

\* A TokenProfits value holds at most MaxProfits entries.
MaxProfits == 2

\* The work budget of one call of poll (range.rs:78).
WorkBudget == 256

VARIABLES
    \* ---- range executor ----
    start_block,     \* the constructor's start_block
    end_block,       \* RangeExecutorWithPricing.end_block
    current_block,   \* RangeExecutorWithPricing.current_block
    collector,       \* RangeExecutorWithPricing.collector
    insert_futures,  \* RangeExecutorWithPricing.insert_futures: blocks in flight
    work,            \* the local `work` of poll
    pollState,       \* "idle" (not inside poll), "polling", "ready" (resolved)
    woken,           \* cx.waker() has been woken since poll last started
    run,             \* run_until_graceful_shutdown: "selecting" or "returned"
    shutdown,        \* the GracefulShutdown signal has fired
    \* ---- what the executor did (observed calls) ----
    fetched,         \* the blocks passed to collector.fetch_state_for, in order
    yielded,         \* the blocks whose (tree, meta) the collector yielded
    completed,       \* the blocks whose insertion future ran to completion
    finishCalls,     \* how often collector.range_finished() was called
    \* ---- WindowExchangePrice multiplication ----
    mul_lhs,         \* `self` of Mul::mul
    mul_rhs,         \* `rhs` of Mul::mul
    mul_out,         \* the product, once computed
    \* ---- time-window VWAP pricer: the arguments of get_price ----
    trade_map,       \* exchange -> pair -> trades sorted by timestamp
    fee_sched,       \* exchange -> <<maker fee, taker fee>>
    config,          \* CexDexTradeConfig
    exchanges,       \* the active exchanges
    pair,            \* the pair to price
    vol,             \* the volume needed
    block_timestamp, \* the block time B
    bypass_vol,      \* bypass_vol
    \* ---- get_vwap_price(pair, vol), step by step ----
    vw,              \* pc, walker, trade_volume_global, exchange_vxp
    vwap_out,        \* what get_vwap_price returned
    \* ---- results of the calls made on the same arguments ----
    price_out,       \* get_price(pair)
    flip_out,        \* get_price(pair.flip())
    via_out,         \* get_vwap_price_via_intermediary(pair)
    via_order,       \* the order in which the intermediary set was iterated
    \* ---- atomic-arb inspector: process_swaps on one transaction ----
    searcher_actions,\* the actions collected for the transaction
    arb_swaps,       \* the flattened swap list S
    rev_usd,         \* what get_dex_revenue_usd returns (an Option)
    gas_used_usd,    \* metadata.get_gas_price_usd(gas_paid)
    possible_arb_type, \* what is_possible_arb returned
    arb_bundle,      \* what process_swaps returned
    arb_pc,          \* "start", "classified", "done"
    \* ---- CEX/DEX inspector: process_swaps on one transaction ----
    cex_exchanges,   \* CexDexInspector.cex_exchanges, in configured order
    cd_swaps,        \* the swaps of the transaction
    token_decimals,  \* the token_decimals table: token -> Option<u8>
    metadata,        \* cex_quotes, eth_prices, and the USD deltas it yields
    cex_fees,        \* exchange -> <<maker fee, taker fee>>
    root,            \* the transaction root: head and gas_details
    swaps_with_profit_by_exchange, \* per swap, detect_cex_dex_opportunity
    possible_cex_dex,\* what gas_accounting returned
    cd_bundle,       \* what process_swaps returned
    cd_pc,           \* "start", "done", "panicked"
    \* ---- FlattenSpecified, driven until next() returns None ----
    fs_items,        \* the items the underlying iterator was built on
    fs_iter,         \* FlattenSpecified.iter: the items not yet taken
    fs_extra,        \* FlattenSpecified.extra
    fs_out,          \* the items next() has yielded, in order
    fs_pc,           \* "running", "ended" (next() returned None)
    \* ---- TokenProfits::compose ----
    tp_old,          \* self.profits before the first compose
    tp_self,         \* self.profits
    tp_other,        \* to_compose.profits
    tp_calls         \* how often self.compose(to_compose) was called

execVars == <<start_block, end_block, current_block, collector, insert_futures,
              work, pollState, woken, run, shutdown, fetched, yielded,
              completed, finishCalls>>

mulVars == <<mul_lhs, mul_rhs, mul_out>>

priceArgs == <<trade_map, fee_sched, config, exchanges, pair, vol,
               block_timestamp, bypass_vol>>

priceVars == <<priceArgs, vw, vwap_out, price_out, flip_out, via_out, via_order>>

arbVars == <<searcher_actions, arb_swaps, rev_usd, gas_used_usd,
             possible_arb_type, arb_bundle,
             arb_pc>>

cdArgs == <<cex_exchanges, cd_swaps, token_decimals, metadata, cex_fees, root>>

cdVars == <<cdArgs, swaps_with_profit_by_exchange, possible_cex_dex, cd_bundle,
            cd_pc>>

inspVars == <<arbVars, cdVars>>

fsVars == <<fs_items, fs_iter, fs_extra, fs_out, fs_pc>>

tpVars == <<tp_old, tp_self, tp_other, tp_calls>>

utilVars == <<fsVars, tpVars>>

nonExecVars == <<mulVars, priceVars, inspVars, utilVars>>

vars == <<execVars, mulVars, priceVars, inspVars, utilVars>>

(***************************************************************************)
(* Rational numbers (malachite::Rational): <<numerator, denominator>> in   *)
(* lowest terms with a positive denominator.                               *)
(***************************************************************************)
RECURSIVE GCD(_, _)
GCD(a, b) == IF b = 0 THEN a ELSE GCD(b, a % b)

Abs(x) == IF x < 0 THEN -x ELSE x

RNorm(n, d) ==
    LET g == GCD(Abs(n), Abs(d))
        sgn == IF d < 0 THEN -1 ELSE 1
    IN <<(sgn * n) \div g, (sgn * d) \div g>>

RZero == <<0, 1>>
ROne == <<1, 1>>
RInt(n) == <<n, 1>>

\* The operations cancel common factors before multiplying, so that the
\* intermediate products stay small; the values are those of exact arithmetic.
RAdd(a, b) ==
    LET g == GCD(a[2], b[2])
    IN RNorm(a[1] * (b[2] \div g) + b[1] * (a[2] \div g), (a[2] \div g) * b[2])
RSub(a, b) == RAdd(a, <<-b[1], b[2]>>)
RMul(a, b) ==
    LET x == RNorm(a[1], b[2])
        y == RNorm(b[1], a[2])
    IN RNorm(x[1] * y[1], x[2] * y[2])
\* Division; the divisor is not zero (malachite panics on zero).
RDiv(a, b) == RMul(a, RNorm(b[2], b[1]))
RLt(a, b) ==
    LET g == GCD(a[2], b[2])
    IN a[1] * (b[2] \div g) < b[1] * (a[2] \div g)
RLe(a, b) ==
    LET g == GCD(a[2], b[2])
    IN a[1] * (b[2] \div g) <= b[1] * (a[2] \div g)

\* Option<T>.
None == [some |-> FALSE]
Some(v) == [some |-> TRUE, val |-> v]

MinOf(S) == CHOOSE x \in S : \A y \in S : x <= y

MinInt(a, b) == IF a <= b THEN a ELSE b
MaxInt(a, b) == IF a >= b THEN a ELSE b

(***************************************************************************)
(* ExchangePath and WindowExchangePrice (time_window_vwam.rs:36-55).       *)
(***************************************************************************)
Exchanges == {"Binance", "Coinbase"}

\* #[derive(Default)] of ExchangePath.
DefaultExchangePath ==
    [price_maker |-> RZero, price_taker |-> RZero, volume |-> RZero,
     final_start_time |-> 0, final_end_time |-> 0]

\* #[derive(Default)] of WindowExchangePrice.
DefaultWindowExchangePrice ==
    [exchange_price_with_volume_direct |-> <<>>, pairs |-> <<>>,
     global |-> DefaultExchangePath]

\* Mutant: the per-exchange join keeps the exchanges of the left operand only
\* partially combined, and the window start takes the later bound.
MulPath_MaxStart(first_leg, second_leg) ==
    [first_leg EXCEPT
        !.price_maker = RMul(@, second_leg.price_maker),
        !.price_taker = RMul(@, second_leg.price_taker),
        !.final_start_time = MaxInt(@, second_leg.final_start_time),
        !.final_end_time = MaxInt(@, second_leg.final_end_time)]

\* time_window_vwam.rs:66-72 and 80-85: prices multiplied, window bounds
\* min(start) and max(end); the volume is the first leg's.
MulPath(first_leg, second_leg) ==
    [first_leg EXCEPT
        !.price_maker = RMul(@, second_leg.price_maker),
        !.price_taker = RMul(@, second_leg.price_taker),
        !.final_start_time = MinInt(@, second_leg.final_start_time),
        !.final_end_time = MaxInt(@, second_leg.final_end_time)]

\* Mutant: the per-exchange map keeps every exchange of the left operand.
MulExchanges_LeftJoin(self, rhs) ==
    [ex \in DOMAIN self.exchange_price_with_volume_direct |->
        IF ex \in DOMAIN rhs.exchange_price_with_volume_direct
        THEN MulPath(self.exchange_price_with_volume_direct[ex],
                     rhs.exchange_price_with_volume_direct[ex])
        ELSE self.exchange_price_with_volume_direct[ex]]

\* time_window_vwam.rs:61-76: filter_map over the left operand's exchanges,
\* dropping those the right operand lacks.
MulExchanges(self, rhs) ==
    [ex \in (DOMAIN self.exchange_price_with_volume_direct)
              \cap (DOMAIN rhs.exchange_price_with_volume_direct) |->
        MulPath(self.exchange_price_with_volume_direct[ex],
                rhs.exchange_price_with_volume_direct[ex])]

\* impl Mul for WindowExchangePrice (time_window_vwam.rs:57-89).
Mul(self, rhs) ==
    [exchange_price_with_volume_direct |-> MulExchanges(self, rhs),
     pairs |-> self.pairs \o rhs.pairs,
     global |-> MulPath(self.global, rhs.global)]

\* Operands of the multiplication: the paths, pair lists and per-exchange maps
\* the model draws them from.
PathMenu ==
    { [price_maker |-> <<2, 1>>, price_taker |-> <<3, 2>>, volume |-> <<1, 1>>,
       final_start_time |-> 950, final_end_time |-> 1050],
      [price_maker |-> <<1, 2>>, price_taker |-> <<1, 3>>, volume |-> <<5, 2>>,
       final_start_time |-> 940, final_end_time |-> 1080],
      [price_maker |-> <<3, 1>>, price_taker |-> <<3, 1>>, volume |-> <<2, 1>>,
       final_start_time |-> 960, final_end_time |-> 1060] }

PairsMenu == { <<>>, <<<<"WETH", "USDC">>>>, <<<<"USDC", "DAI">>>> }

PerExchangeMenu == UNION { [S -> PathMenu] : S \in SUBSET Exchanges }

WindowExchangePrices ==
    { [exchange_price_with_volume_direct |-> f, pairs |-> ps, global |-> g] :
        f \in PerExchangeMenu, ps \in PairsMenu, g \in PathMenu }

MulIdle ==
    /\ mul_lhs = DefaultWindowExchangePrice
    /\ mul_rhs = DefaultWindowExchangePrice
    /\ mul_out = None

(***************************************************************************)
(* The time-window VWAP pricer (time_window_vwam.rs).                      *)
(***************************************************************************)
\* const PRE_DECAY: f64 = -0.0000005 and POST_DECAY: f64 = -0.0000002, in
\* units of 10^-7 per microsecond.
PRE_DECAY_E7 == 5
POST_DECAY_E7 == 2

START_POST_TIME_US == 50000
START_PRE_TIME_US == 50000

PRE_SCALING_DIFF == 300000
TIME_STEP == 10000

USDC_ADDRESS == "USDC"
USDT_ADDRESS == "USDT"

\* Pair::flip.
Flip(p) == <<p[2], p[1]>>

\* Pair::ordered puts the numerically smaller address first
\* (DAI 0x6B17.., USDC 0xA0b8.., WETH 0xC02a.., USDT 0xdAC1..).
TokenRank(t) ==
    CASE t = "DAI" -> 1 [] t = "USDC" -> 2 [] t = "WETH" -> 3 [] t = "USDT" -> 4

IsOrdered(p) == TokenRank(p[1]) <= TokenRank(p[2])

\* CexExchange::fees(pair, CommodityClass::Spot) -> (maker, taker).
Fees(ex, p) == fee_sched[ex]

\* calculate_weight (time_window_vwam.rs:578-587): exp(decay * dt), evaluated
\* in thousandths with the series 1 - x + x^2/2 (x = |decay| * dt).
ExpDecayMilli(decay_e7, dt) ==
    LET x == (dt * decay_e7) \div 10000
    IN 1000 - x + ((x * x) \div 2000)

CalculateWeight(block_time, trade_time) ==
    IF trade_time < block_time
    THEN RNorm(ExpDecayMilli(PRE_DECAY_E7, block_time - trade_time), 1000)
    ELSE RNorm(ExpDecayMilli(POST_DECAY_E7, trade_time - block_time), 1000)

\* calculate_intermediary_addresses (time_window_vwam.rs:501-532).
CalculateIntermediaryAddresses(tm, exs, p) ==
    LET keys == UNION {DOMAIN tm[ex] : ex \in (DOMAIN tm) \cap exs}
        connected(tok) ==
            {k[2] : k \in {k \in keys : k[1] = tok}}
            \cup {k[1] : k \in {k \in keys : k[1] # tok /\ k[2] = tok}}
    IN connected(p[1]) \cap connected(p[2])

\* slice::partition_point(|t| t.timestamp < block_timestamp) on a sorted slice.
PartitionPoint(trades, B) ==
    Cardinality({i \in 1..Len(trades) : trades[i].timestamp < B})

\* TimeWindowTrades::new_from_cex_trade_map (time_window_vwam.rs:99-138).
NewFromCexTradeMap(tm, B, exs, p) ==
    LET inter == CalculateIntermediaryAddresses(tm, exs, p)
        keep(k) ==
            \/ k = p \/ k = Flip(p)
            \/ (k[1] = p[1] /\ k[2] \in inter)
            \/ (k[2] = p[1] /\ k[1] \in inter)
            \/ (k[1] = p[2] /\ k[2] \in inter)
            \/ (k[2] = p[2] /\ k[1] \in inter)
    IN [trades |->
           [ex \in {e \in DOMAIN tm : e \in exs /\ p[1] # p[2]} |->
               [k \in {k \in DOMAIN tm[ex] : keep(k)} |->
                   [idx |-> PartitionPoint(tm[ex][k], B),
                    trades |-> tm[ex][k]]]],
        intermediaries |-> inter]

\* query_trades (time_window_vwam.rs:487-499): per exchange that holds a
\* non-empty vector for the pair, the anchored indices (idx.saturating_sub(1),
\* idx) and the trades.
QueryTrades(view, exs, p) ==
    [ex \in {e \in DOMAIN view.trades :
                /\ e \in exs
                /\ p \in DOMAIN view.trades[e]
                /\ view.trades[e][p].trades # <<>>} |->
        [indices |-> <<MaxInt(view.trades[ex][p].idx - 1, 0),
                       view.trades[ex][p].idx>>,
         trades |-> view.trades[ex][p].trades]]

\* get_trades (time_window_vwam.rs:438-485).
GetTrades(view, exs, p) ==
    IF DOMAIN QueryTrades(view, exs, p) = {}
    THEN IF DOMAIN QueryTrades(view, exs, Flip(p)) # {}
         THEN Some([data |-> QueryTrades(view, exs, Flip(p)),
                    direction |-> "Buy"])
         ELSE None
    ELSE Some([data |-> QueryTrades(view, exs, p), direction |-> "Sell"])

\* u64 timestamps.  A value below 2^31 is the integer itself; a negative
\* integer r stands for the wrapped value 2^64 + r, so that wrapping
\* subtraction and addition are the integer ones.
U64Le(a, b) == IF (a < 0) = (b < 0) THEN a <= b ELSE b < 0

\* `a - b` on u64 underflows (a panic with overflow checks, a wrap without).
SubOverflows(a, b) == a >= 0 /\ b >= 0 /\ a < b

WrappingSub(a, b) == a - b

\* PairTradeWalker (spec 4.2, step 1): the window and, per exchange, the
\* positions of the trades already pulled.
NewWalker(data, min_ts, max_ts) ==
    [trades |-> [ex \in DOMAIN data |-> data[ex].trades],
     pulled |-> [ex \in DOMAIN data |-> {}],
     min_timestamp |-> min_ts,
     max_timestamp |-> max_ts]

\* PairTradeWalker::get_trades_for_window: the positions of the trades whose
\* timestamp falls in the current window and that were not pulled before.
TradesForWindow(w, ex) ==
    {i \in 1..Len(w.trades[ex]) :
        /\ U64Le(w.min_timestamp, w.trades[ex][i].timestamp)
        /\ U64Le(w.trades[ex][i].timestamp, w.max_timestamp)
        /\ i \notin w.pulled[ex]}

MarkPulled(w) ==
    [w EXCEPT !.pulled = [ex \in DOMAIN w.trades |->
                             w.pulled[ex] \cup TradesForWindow(w, ex)]]

\* PairTradeWalker::get_min_time_delta / get_max_time_delta.
GetMinTimeDelta(w, B) == WrappingSub(B, w.min_timestamp)
GetMaxTimeDelta(w, B) == w.max_timestamp - B

\* PairTradeWalker::expand_time_bounds.
ExpandTimeBounds(w, min_expand, max_expand) ==
    [w EXCEPT !.min_timestamp = @ - min_expand,
              !.max_timestamp = @ + max_expand]

\* The trade as accumulated: flipping the pair marks the direction and does
\* not invert the accumulators (spec 4.2, pair flipping).
AdjustedTrade(trade, direction) == trade

ZeroVxp ==
    [vxp_maker |-> RZero, vxp_taker |-> RZero, trade_volume_weight |-> RZero,
     trade_volume_ex |-> RZero, start_time |-> 0, end_time |-> 0]

\* time_window_vwam.rs:311-342: one trade added to its exchange's entry.
AddTrade(acc, trade, p, B, w) ==
    LET weight == CalculateWeight(B, trade.timestamp)
        m_fee == Fees(trade.exchange, p)[1]
        t_fee == Fees(trade.exchange, p)[2]
    IN [vxp_maker |->
            RAdd(acc.vxp_maker,
                 RMul(RMul(RMul(trade.price, RSub(ROne, m_fee)), trade.amount),
                      weight)),
        vxp_taker |->
            RAdd(acc.vxp_taker,
                 RMul(RMul(RMul(trade.price, RSub(ROne, t_fee)), trade.amount),
                      weight)),
        trade_volume_weight |->
            RAdd(acc.trade_volume_weight, RMul(trade.amount, weight)),
        trade_volume_ex |-> RAdd(acc.trade_volume_ex, trade.amount),
        start_time |-> w.min_timestamp,
        end_time |-> w.max_timestamp]

RECURSIVE AddTrades(_, _, _, _, _, _, _)
AddTrades(acc, trades, idxs, dir, p, B, w) ==
    IF idxs = {} THEN acc
    ELSE LET i == MinOf(idxs)
         IN AddTrades(AddTrade(acc, AdjustedTrade(trades[i], dir), p, B, w),
                      trades, idxs \ {i}, dir, p, B, w)

RECURSIVE SumAmounts(_, _, _)
SumAmounts(trades, idxs, dir) ==
    IF idxs = {} THEN RZero
    ELSE LET i == MinOf(idxs)
         IN RAdd(AdjustedTrade(trades[i], dir).amount,
                 SumAmounts(trades, idxs \ {i}, dir))

RECURSIVE SumOver(_, _)
SumOver(S, f) ==
    IF S = {} THEN RZero
    ELSE LET x == CHOOSE y \in S : TRUE IN RAdd(f[x], SumOver(S \ {x}, f))

\* The state of get_vwap_price at the head of its loop
\* (time_window_vwam.rs:298-306).
StartLoop(td, B) ==
    [pc |-> "head",
     direction |-> td.direction,
     walker |-> NewWalker(td.data, WrappingSub(B, START_PRE_TIME_US),
                          B + START_POST_TIME_US),
     trade_volume_global |-> RZero,
     exchange_vxp |-> <<>>]

\* time_window_vwam.rs:308, `while trade_volume_global.le(vol)`.
LoopContinues(tvg, volume) == RLe(tvg, volume)

\* Mutant: the loop stops only once both limits are reached.
WindowLimitReached_Both(w, cfg, B) ==
    /\ GetMinTimeDelta(w, B) >= cfg.time_window_before_us
    /\ GetMaxTimeDelta(w, B) >= cfg.time_window_after_us

\* time_window_vwam.rs:345-349, the break.
WindowLimitReached(w, cfg, B) ==
    \/ GetMinTimeDelta(w, B) >= cfg.time_window_before_us
    \/ GetMaxTimeDelta(w, B) >= cfg.time_window_after_us

\* Mutant: the pre bound is stepped on every expansion.
MinExpand_Always(w, B) == TIME_STEP

\* time_window_vwam.rs:351-353.
MinExpand(w, B) ==
    IF GetMaxTimeDelta(w, B) >= PRE_SCALING_DIFF THEN TIME_STEP ELSE 0

\* One evaluation of the loop condition and, if it holds, one iteration of the
\* loop (time_window_vwam.rs:308-356).
VwapLoopStep(lp, cfg, p, volume, B) ==
    IF ~LoopContinues(lp.trade_volume_global, volume)
    THEN [lp EXCEPT !.pc = "post"]
    ELSE LET w == lp.walker
             touched == {ex \in DOMAIN w.trades : TradesForWindow(w, ex) # {}}
             vxp1 == [ex \in (DOMAIN lp.exchange_vxp) \cup touched |->
                         IF ex \in touched
                         THEN AddTrades(IF ex \in DOMAIN lp.exchange_vxp
                                        THEN lp.exchange_vxp[ex] ELSE ZeroVxp,
                                        w.trades[ex], TradesForWindow(w, ex),
                                        lp.direction, p, B, w)
                         ELSE lp.exchange_vxp[ex]]
             pulledVol == [ex \in touched |->
                              SumAmounts(w.trades[ex], TradesForWindow(w, ex),
                                         lp.direction)]
             tvg1 == RAdd(lp.trade_volume_global, SumOver(touched, pulledVol))
             w1 == MarkPulled(w)
         IN IF WindowLimitReached(w1, cfg, B)
            THEN [lp EXCEPT !.pc = "post", !.walker = w1,
                            !.trade_volume_global = tvg1, !.exchange_vxp = vxp1]
            ELSE [lp EXCEPT !.walker = ExpandTimeBounds(w1, MinExpand(w1, B),
                                                        TIME_STEP),
                            !.trade_volume_global = tvg1, !.exchange_vxp = vxp1]

RECURSIVE RunLoop(_, _, _, _, _)
RunLoop(lp, cfg, p, volume, B) ==
    IF lp.pc = "head" THEN RunLoop(VwapLoopStep(lp, cfg, p, volume, B),
                                   cfg, p, volume, B)
    ELSE lp

\* Mutant: the volume check is skipped.
InsufficientVolume_Never(tvg, volume, bypass) == FALSE

\* time_window_vwam.rs:358, `&trade_volume_global < vol && !bypass_vol`.
InsufficientVolume(tvg, volume, bypass) == RLt(tvg, volume) /\ ~bypass

\* time_window_vwam.rs:377-401: the exchanges that get a price.
PricedExchanges(vxp) ==
    {ex \in DOMAIN vxp : vxp[ex].trade_volume_weight # RZero}

MinOfSet(S, default) ==
    IF S = {} THEN default ELSE CHOOSE x \in S : \A y \in S : x <= y
\* Mutant: the global window ends at the earliest per-exchange end.
MaxOfSet_Min(S, default) ==
    IF S = {} THEN default ELSE CHOOSE x \in S : \A y \in S : x <= y

MaxOfSet(S, default) ==
    IF S = {} THEN default ELSE CHOOSE x \in S : \A y \in S : x >= y

\* time_window_vwam.rs:358-435: what get_vwap_price returns after its loop.
Aggregate(lp, p, volume, bypass) ==
    IF InsufficientVolume(lp.trade_volume_global, volume, bypass) THEN None
    ELSE IF lp.trade_volume_global = RZero THEN None
    ELSE
    LET vxp == lp.exchange_vxp
        priced == PricedExchanges(vxp)
        maker_price == [ex \in priced |->
                           RDiv(vxp[ex].vxp_maker, vxp[ex].trade_volume_weight)]
        taker_price == [ex \in priced |->
                           RDiv(vxp[ex].vxp_taker, vxp[ex].trade_volume_weight)]
        global_maker ==
            SumOver(priced, [ex \in priced |->
                        RMul(maker_price[ex], vxp[ex].trade_volume_ex)])
        global_taker ==
            SumOver(priced, [ex \in priced |->
                        RMul(taker_price[ex], vxp[ex].trade_volume_ex)])
    IN Some([exchange_price_with_volume_direct |->
                [ex \in priced |->
                    [volume |-> vxp[ex].trade_volume_ex,
                     price_maker |-> maker_price[ex],
                     price_taker |-> taker_price[ex],
                     final_end_time |-> vxp[ex].end_time,
                     final_start_time |-> vxp[ex].start_time]],
             global |->
                [volume |-> lp.trade_volume_global,
                 price_maker |-> RDiv(global_maker, lp.trade_volume_global),
                 price_taker |-> RDiv(global_taker, lp.trade_volume_global),
                 final_start_time |->
                     MinOfSet({vxp[ex].start_time : ex \in priced}, 0),
                 final_end_time |->
                     MaxOfSet({vxp[ex].end_time : ex \in priced}, 0)],
             pairs |-> <<p>>])

\* get_vwap_price (time_window_vwam.rs:285-436).
GetVwapPrice(view, cfg, exs, p, volume, B, bypass) ==
    IF ~GetTrades(view, exs, p).some THEN None
    ELSE Aggregate(RunLoop(StartLoop(GetTrades(view, exs, p).val, B),
                           cfg, p, volume, B),
                   p, volume, bypass)

\* time_window_vwam.rs:194-197 and 215-218: the stable pairs whose volume
\* requirement is bypassed.
IsStablePair(p) ==
    \/ (p[1] = USDC_ADDRESS /\ p[2] = USDT_ADDRESS)
    \/ (p[1] = USDT_ADDRESS /\ p[2] = USDC_ADDRESS)

\* time_window_vwam.rs:185-235: the price through one intermediary.
IntermediaryPrice(view, cfg, exs, p, volume, B, bypass, x) ==
    LET pair0 == <<p[1], x>>
        pair1 == <<x, p[2]>>
        first_leg == GetVwapPrice(view, cfg, exs, pair0, volume, B,
                                  bypass \/ IsStablePair(pair0))
    IN IF ~first_leg.some THEN None
       ELSE LET second_leg_volume ==
                    RMul(first_leg.val.global.price_maker, volume)
                second_leg == GetVwapPrice(view, cfg, exs, pair1,
                                           second_leg_volume, B,
                                           bypass \/ IsStablePair(pair1))
            IN IF ~second_leg.some THEN None
               ELSE Some(Mul(first_leg.val, second_leg.val))

\* Mutant: the candidate with the smaller key wins.
MaxByKeyStep_Min(best, cand) ==
    IF ~cand.some THEN best
    ELSE IF ~best.some THEN cand
    ELSE IF RLe(cand.val.global.price_maker, best.val.global.price_maker)
         THEN cand ELSE best

\* Iterator::max_by_key(|a| a.global.price_maker) over the filter_map
\* (time_window_vwam.rs:236): of several maxima the last one is returned.
MaxByKeyStep(best, cand) ==
    IF ~cand.some THEN best
    ELSE IF ~best.some THEN cand
    ELSE IF RLe(best.val.global.price_maker, cand.val.global.price_maker)
         THEN cand ELSE best

RECURSIVE ViaFold(_, _, _, _, _, _, _, _, _, _)
ViaFold(best, order, i, view, cfg, exs, p, volume, B, bypass) ==
    IF i > Len(order) THEN best
    ELSE ViaFold(MaxByKeyStep(best, IntermediaryPrice(view, cfg, exs, p, volume,
                                                      B, bypass, order[i])),
                 order, i + 1, view, cfg, exs, p, volume, B, bypass)

\* get_vwap_price_via_intermediary (time_window_vwam.rs:172-237); `order` is
\* the order in which the hash set of intermediaries is iterated.
GetVwapPriceViaIntermediary(view, cfg, exs, p, volume, B, bypass, order) ==
    ViaFold(None, order, 1, view, cfg, exs, p, volume, B, bypass)

\* get_price (time_window_vwam.rs:140-170).
GetPrice(view, cfg, exs, p, volume, B, bypass, order) ==
    IF p[1] = p[2] THEN Some(DefaultWindowExchangePrice)
    ELSE IF GetVwapPrice(view, cfg, exs, p, volume, B, bypass).some
         THEN GetVwapPrice(view, cfg, exs, p, volume, B, bypass)
         ELSE GetVwapPriceViaIntermediary(view, cfg, exs, p, volume, B, bypass,
                                          order)

\* The orders in which a set can be iterated.
OrdersOf(S) ==
    {f \in [1..Cardinality(S) -> S] : \A i, j \in DOMAIN f : f[i] = f[j] => i = j}

(***************************************************************************)
(* The arguments the pricer is run on.                                     *)
(***************************************************************************)
BlockTimestamps == {1000000}

\* A trade `off` microseconds from the block time.
T(B, off, ex, price, amount) ==
    [timestamp |-> B + off, exchange |-> ex, price |-> price, amount |-> amount]

\* Trade vectors of the pair (DAI, WETH), sorted by timestamp.
DirectTrades(B, ex) ==
    IF ex = "Binance"
    THEN { <<>>,
           << T(B, -40000, ex, <<2, 1>>, <<1, 1>>),
              T(B, 30000, ex, <<3, 1>>, <<1, 1>>) >>,
           << T(B, -40000, ex, <<2, 1>>, <<1, 1>>),
              T(B, 0, ex, <<2, 1>>, <<1, 1>>),
              T(B, 55000, ex, <<4, 1>>, <<1, 1>>),
              T(B, 65000, ex, <<1, 1>>, <<2, 1>>) >>,
           << T(B, 55000, ex, <<1, 2>>, <<1, 2>>) >>,
           << T(B, 200000, ex, <<2, 1>>, <<1, 1>>) >> }
    ELSE { <<>>,
           << T(B, 10000, ex, <<5, 2>>, <<1, 1>>) >>,
           << T(B, -20000, ex, <<3, 1>>, <<2, 1>>),
              T(B, 58000, ex, <<3, 1>>, <<1, 1>>) >> }

\* Trade vectors of the pairs through USDC and USDT, on Binance.
LegTrades(B, k) ==
    CASE k = <<"USDC", "WETH">> ->
            << T(B, 0, "Binance", <<2, 1>>, <<2, 1>>),
               T(B, 55000, "Binance", <<2, 1>>, <<1, 1>>) >>
      [] k = <<"DAI", "USDC">> -> << T(B, 10000, "Binance", <<1, 1>>, <<4, 1>>) >>
      [] k = <<"WETH", "USDT">> -> << T(B, 20000, "Binance", <<3, 1>>, <<3, 1>>) >>
      [] k = <<"DAI", "USDT">> -> << T(B, -10000, "Binance", <<1, 1>>, <<6, 1>>) >>
      [] k = <<"USDC", "USDT">> -> << T(B, 5000, "Binance", <<1, 1>>, <<1, 1>>) >>

LegKeys == { <<"USDC", "WETH">>, <<"DAI", "USDC">>, <<"WETH", "USDT">>,
             <<"DAI", "USDT">>, <<"USDC", "USDT">> }

DirectKey == <<"DAI", "WETH">>

\* The trade map holding the given vectors (an empty vector: no entry).
MkTradeMap(B, binDirect, cbDirect, legs) ==
    [ex \in Exchanges |->
        IF ex = "Binance"
        THEN [k \in (IF binDirect # <<>> THEN {DirectKey} ELSE {}) \cup legs |->
                 IF k = DirectKey THEN binDirect ELSE LegTrades(B, k)]
        ELSE [k \in (IF cbDirect # <<>> THEN {DirectKey} ELSE {}) |-> cbDirect]]

ZeroFees == [ex \in Exchanges |-> <<RZero, RZero>>]
SpotFees == [ex \in Exchanges |->
                IF ex = "Binance" THEN << <<1, 100>>, <<1, 50>> >>
                ELSE << <<1, 20>>, <<1, 10>> >>]

Configs ==
    { [time_window_before_us |-> 100000, time_window_after_us |-> 70000],
      [time_window_before_us |-> 60000, time_window_after_us |-> 50000] }

PricedPairs ==
    { <<"WETH", "DAI">>, <<"DAI", "WETH">>, <<"WETH", "USDC">>,
      <<"USDC", "DAI">>, <<"WETH", "WETH">> }

PriceIdle ==
    /\ trade_map = <<>>
    /\ fee_sched = ZeroFees
    /\ config = [time_window_before_us |-> 0, time_window_after_us |-> 0]
    /\ exchanges = {}
    /\ pair = <<"WETH", "WETH">>
    /\ vol = RZero
    /\ block_timestamp = 0
    /\ bypass_vol = FALSE
    /\ vw = [pc |-> "idle"]
    /\ vwap_out = None
    /\ price_out = None
    /\ flip_out = None
    /\ via_out = None
    /\ via_order = <<>>

(***************************************************************************)
(* The atomic-arb inspector (crates/brontes-inspect/src/atomic_backrun.rs). *)
(***************************************************************************)
\* f64 values are kept as rationals on a binary grid: to_float rounds to the
\* nearest multiple of 2^-FloatBits.
FloatBits == 10

\* ToFloatNearest::to_float.
ToFloat(r) ==
    LET scale == 2 ^ FloatBits
        n == r[1] * scale
        q == (2 * n + r[2]) \div (2 * r[2])
    IN RNorm(q, scale)

\* Mutant: the stale first token_out is compared with every later token_in.
IdentifyArbSequence_StaleLastOut(swaps) ==
    IF swaps[1].token_in # swaps[Len(swaps)].token_out THEN "LongTail"
    ELSE IF \E i \in 2..Len(swaps) : swaps[i].token_in # swaps[1].token_out
         THEN "CrossPair"
         ELSE "Triangle"

\* The loop of identify_arb_sequence (atomic_backrun.rs:190-199), from swap i
\* on with the running last_out.
RECURSIVE ArbSequenceWalk(_, _, _)
ArbSequenceWalk(swaps, i, last_out) ==
    IF i > Len(swaps) THEN "Triangle"
    ELSE IF swaps[i].token_in # last_out THEN "CrossPair"
    ELSE ArbSequenceWalk(swaps, i + 1, swaps[i].token_out)

\* identify_arb_sequence (atomic_backrun.rs:182-200).
IdentifyArbSequence(swaps) ==
    LET start_token == swaps[1].token_in
        end_token == swaps[Len(swaps)].token_out
    IN IF start_token # end_token THEN "LongTail"
       ELSE ArbSequenceWalk(swaps, 2, swaps[1].token_out)

\* is_possible_arb (atomic_backrun.rs:113-129).
IsPossibleArb(swaps) ==
    IF Len(swaps) <= 1 THEN Some("LongTail")
    ELSE IF Len(swaps) = 2
    THEN LET start == swaps[1].token_in
             end == swaps[2].token_out
         IN IF start = end /\ swaps[1].token_out = swaps[2].token_in
            THEN Some("Triangle")
            ELSE Some("CrossPair")
    ELSE Some(IdentifyArbSequence(swaps))

\* Mutant: a revenue equal to the gas cost is accepted.
ProcessTriangleArb_AllowsZero(rev, gas) ==
    IF ~rev.some THEN None
    ELSE IF RLt(RSub(rev.val, gas), RZero) THEN None
    ELSE Some(RSub(rev.val, gas))

\* process_triangle_arb (atomic_backrun.rs:131-154); `rev` is what
\* get_dex_revenue_usd returned, `gas` is get_gas_price_usd(gas_paid).
ProcessTriangleArb(rev, gas) ==
    IF ~rev.some THEN None
    ELSE IF RLe(RSub(rev.val, gas), RZero) THEN None
    ELSE Some(RSub(rev.val, gas))

\* process_cross_pair_arb (atomic_backrun.rs:156-179).
ProcessCrossPairArb(rev, gas) ==
    IF ~rev.some THEN None
    ELSE IF RLe(RSub(rev.val, gas), RZero) THEN None
    ELSE Some(RSub(rev.val, gas))

\* Actions: a swap, a flash loan with its child actions, or a transfer.
SwapAction(s) == [kind |-> "Swap", swap |-> s]
FlashLoanAction(children) == [kind |-> "FlashLoan", child_actions |-> children]
TransferAction == [kind |-> "Transfer"]

\* Iterator::filter(is_swap).map(force_swap) over a list of actions.
RECURSIVE SwapsOf(_)
SwapsOf(actions) ==
    IF actions = <<>> THEN <<>>
    ELSE (IF Head(actions).kind = "Swap" THEN <<Head(actions).swap>> ELSE <<>>)
         \o SwapsOf(Tail(actions))

\* atomic_backrun.rs:63-77: the swaps, with the swap children of flash loans
\* pulled out, in order.
RECURSIVE FlattenSwaps(_)
FlattenSwaps(actions) ==
    IF actions = <<>> THEN <<>>
    ELSE (CASE Head(actions).kind = "Swap" -> <<Head(actions).swap>>
            [] Head(actions).kind = "FlashLoan" ->
                  SwapsOf(Head(actions).child_actions)
            [] OTHER -> <<>>)
         \o FlattenSwaps(Tail(actions))

\* atomic_backrun.rs:101-106: the swaps of the bundle's payload.
PayloadSwaps(actions) == SwapsOf(actions)

\* process_swaps after is_possible_arb (atomic_backrun.rs:81-110): the bundle,
\* with the header's profit_usd.
ArbBundle(arb_type, actions, rev, gas) ==
    LET profit == CASE arb_type = "LongTail" -> None
                    [] arb_type = "Triangle" -> ProcessTriangleArb(rev, gas)
                    [] arb_type = "CrossPair" -> ProcessCrossPairArb(rev, gas)
    IN IF ~profit.some THEN None
       ELSE Some([header |-> [profit_usd |-> ToFloat(profit.val),
                              mev_type |-> "AtomicArb"],
                  profit |-> profit.val,
                  swaps |-> PayloadSwaps(actions)])

ArbTokens == {"WETH", "USDC", "DAI"}

ArbSwaps == [token_in : ArbTokens, token_out : ArbTokens]

Sw(a, b) == [token_in |-> a, token_out |-> b]

\* Actions with flash loans around swaps and transfers.
ArbActions ==
    { SwapAction(Sw("WETH", "USDC")), SwapAction(Sw("USDC", "WETH")),
      SwapAction(Sw("USDC", "DAI")),
      FlashLoanAction(<< SwapAction(Sw("WETH", "USDC")), TransferAction,
                         SwapAction(Sw("USDC", "WETH")) >>),
      FlashLoanAction(<< SwapAction(Sw("DAI", "WETH")) >>),
      FlashLoanAction(<< TransferAction >>),
      TransferAction }

RECURSIVE SeqsUpTo(_, _)
SeqsUpTo(S, n) ==
    IF n = 0 THEN {<<>>}
    ELSE SeqsUpTo(S, n - 1) \cup [1..n -> S]

ArbIdle ==
    /\ searcher_actions = <<>>
    /\ arb_swaps = <<>>
    /\ rev_usd = None
    /\ gas_used_usd = RZero
    /\ possible_arb_type = None
    /\ arb_bundle = None
    /\ arb_pc = "idle"

(***************************************************************************)
(* The CEX/DEX inspector (crates/brontes-inspect/src/cex_dex.rs).          *)
(***************************************************************************)
\* A panic of the running thread.
Panic == [some |-> FALSE, panic |-> TRUE]
IsPanic(x) == "panic" \in DOMAIN x

\* Pair::ordered.
Ordered(p) == IF IsOrdered(p) THEN p ELSE Flip(p)

\* ToScaledRational::to_scaled_rational(decimals): amount / 10^decimals.
ToScaledRational(amount, decimals) == RNorm(amount, 10 ^ decimals)

\* CexExchange::fees() -> (maker, taker).
CexFees(ex) == cex_fees[ex]

\* CexPriceMap::get_quote(pair, exchange).
GetQuote(md, p, ex) ==
    IF p \in DOMAIN md.cex_quotes.direct THEN md.cex_quotes.direct[p][ex]
    ELSE None

\* CexPriceMap::get_quote_via_intermediary(pair, exchange).
GetQuoteViaIntermediary(md, p, ex) ==
    IF p \in DOMAIN md.cex_quotes.via THEN md.cex_quotes.via[p][ex]
    ELSE None

\* The closure of cex_quotes_for_swap (cex_dex.rs:217-237) on one exchange.
QuoteFor(md, p, ex) ==
    IF GetQuote(md, p, ex).some
    THEN Some(<<ex, GetQuote(md, p, ex).val.price[1], TRUE>>)
    ELSE IF GetQuoteViaIntermediary(md, p, ex).some
    THEN Some(<<ex, GetQuoteViaIntermediary(md, p, ex).val.price[1], FALSE>>)
    ELSE None

\* Iterator::filter_map over a sequence, with f given as a sequence of Options.
RECURSIVE FilterMap(_)
FilterMap(opts) ==
    IF opts = <<>> THEN <<>>
    ELSE IF opts[1].some THEN <<opts[1].val>> \o FilterMap(Tail(opts))
    ELSE FilterMap(Tail(opts))

\* cex_quotes_for_swap (cex_dex.rs:208-245).
CexQuotesForSwap(swap, md, exs) ==
    LET p == Ordered(<<swap.token_in, swap.token_out>>)
        quotes == FilterMap([i \in 1..Len(exs) |-> QuoteFor(md, p, exs[i])])
    IN IF quotes = <<>> THEN None ELSE Some(quotes)

\* dex_price_post_fee (cex_dex.rs:247-262); Rational division by zero panics.
DexPricePostFee(swap, decs) ==
    IF ~decs[swap.token_in].some THEN None
    ELSE IF ~decs[swap.token_out].some THEN None
    ELSE LET adjusted_in ==
                 ToScaledRational(swap.amount_in, decs[swap.token_in].val)
             adjusted_out ==
                 ToScaledRational(swap.amount_out, decs[swap.token_out].val)
         IN IF adjusted_out = RZero THEN Panic
            ELSE Some(RDiv(adjusted_in, adjusted_out))

\* Mutant: an indirect quote pays the fee once.
FeeUnits_AlwaysOne(is_direct) == ROne

\* cex_dex.rs:186-199: a direct pair pays the taker fee once, an indirect
\* pair twice.
FeeUnits(is_direct) == IF is_direct THEN ROne ELSE RInt(2)

\* profit_classifier (cex_dex.rs:162-200).
ProfitClassifier(swap, dex_price, exchange_cex_price, decs) ==
    LET delta_price == RSub(exchange_cex_price[2], dex_price)
        decimals_in == decs[swap.token_out].val
        sell_amount == ToScaledRational(swap.amount_out, decimals_in)
    IN <<exchange_cex_price[1],
         RSub(RMul(delta_price, sell_amount),
              RMul(RMul(sell_amount, CexFees(exchange_cex_price[1])[2]),
                   FeeUnits(exchange_cex_price[3])))>>

\* detect_cex_dex_opportunity (cex_dex.rs:144-160).
DetectCexDexOpportunity(swap, md, exs, decs) ==
    LET cex_prices == CexQuotesForSwap(swap, md, exs)
        dex_price == DexPricePostFee(swap, decs)
    IN IF ~cex_prices.some THEN None
       ELSE IF IsPanic(dex_price) THEN Panic
       ELSE IF ~dex_price.some THEN None
       ELSE Some([i \in 1..Len(cex_prices.val) |->
                     ProfitClassifier(swap, dex_price.val, cex_prices.val[i],
                                      decs)])

\* cex_dex.rs:76-87: the swaps for which an opportunity list was found, each
\* with its list; a panic in one of them unwinds the call.
SwapsWithProfitByExchange(swaps, md, exs, decs) ==
    LET opp(i) == DetectCexDexOpportunity(swaps[i], md, exs, decs)
    IN IF \E i \in 1..Len(swaps) : IsPanic(opp(i)) THEN Panic
       ELSE Some(FilterMap([i \in 1..Len(swaps) |->
                    IF opp(i).some
                    THEN Some([swap |-> swaps[i], profits |-> opp(i).val])
                    ELSE None]))

\* Mutant: the smaller profit is kept.
MaxByStep_Min(best, cand) == IF RLe(cand[2], best[2]) THEN cand ELSE best

\* Iterator::max_by(|(_, p1), (_, p2)| p1.cmp(p2)) (cex_dex.rs:278): of
\* several equally maximal elements the last one is returned.
MaxByStep(best, cand) == IF RLe(best[2], cand[2]) THEN cand ELSE best

RECURSIVE MaxByFold(_, _, _)
MaxByFold(best, profits, i) ==
    IF i > Len(profits) THEN best
    ELSE MaxByFold(MaxByStep(best, profits[i]), profits, i + 1)

\* cex_dex.rs:276-279.
MaxBy(profits) ==
    IF profits = <<>> THEN None ELSE Some(MaxByFold(profits[1], profits, 2))

\* cex_dex.rs:272-281.
MaxProfitSequence(swpe) ==
    FilterMap([i \in 1..Len(swpe) |->
        IF MaxBy(swpe[i].profits).some
        THEN Some([swap |-> swpe[i].swap,
                   exchange |-> MaxBy(swpe[i].profits).val[1],
                   profit |-> MaxBy(swpe[i].profits).val[2]])
        ELSE None])

RECURSIVE SumProfits(_)
SumProfits(seq) ==
    IF seq = <<>> THEN RZero ELSE RAdd(seq[1].profit, SumProfits(Tail(seq)))

\* gas_paid is counted in units of 10^17 wei: 10^18 wei are GasUnitsPerEth
\* units.
GasUnitsPerEth == 10

\* cex_dex.rs:289.
GasCost(gas_details, eth_price) ==
    RMul(RNorm(gas_details.gas_paid, GasUnitsPerEth), eth_price)

\* Metadata::get_gas_price_usd.
GetGasPriceUsd(md, gas_paid) == RMul(RNorm(gas_paid, GasUnitsPerEth), md.eth_prices)

\* gas_accounting (cex_dex.rs:264-306).
GasAccounting(swpe, gas_details, eth_price) ==
    LET max_profit_sequence == MaxProfitSequence(swpe)
        total_arb_pre_gas == SumProfits(max_profit_sequence)
        gas_cost == GasCost(gas_details, eth_price)
    IN [swaps |-> [i \in 1..Len(max_profit_sequence) |->
                      max_profit_sequence[i].swap],
        exchanges |-> [i \in 1..Len(max_profit_sequence) |->
                          max_profit_sequence[i].exchange],
        profits_pre_gas |-> [i \in 1..Len(max_profit_sequence) |->
                                max_profit_sequence[i].profit],
        gas_details |-> gas_details,
        pnl |-> RSub(total_arb_pre_gas, gas_cost)]

\* cex_dex.rs:319-323.
IsKnownCexDexContract(rt) == rt.head.unclassified /\ rt.head.is_cex_dex_call

\* Mutant: a positive pnl alone permits the emission.
BasicCondition_AnyHead(pcd, rt) ==
    \/ RLt(RZero, pcd.pnl)
    \/ pcd.gas_details.coinbase_transfer.some /\ rt.head.unclassified

\* cex_dex.rs:314-317.
BasicCondition(pcd, rt) ==
    \/ RLt(RZero, pcd.pnl) /\ rt.head.unclassified
    \/ pcd.gas_details.coinbase_transfer.some /\ rt.head.unclassified

\* PossibleCexDex::build_bundle_type (cex_dex.rs:352-373).
BuildBundleType(pcd, rt) ==
    [tx_hash |-> rt.tx_hash,
     gas_details |-> pcd.gas_details,
     swaps |-> pcd.swaps,
     prices_kind |-> [i \in 1..(2 * Len(pcd.swaps)) |->
                         IF i % 2 = 1 THEN "Dex" ELSE "Cex"],
     prices_address |-> [i \in 1..(2 * Len(pcd.swaps)) |->
                            IF i % 2 = 1 THEN pcd.swaps[(i + 1) \div 2].token_in
                            ELSE pcd.swaps[i \div 2].token_out],
     prices_price |-> [i \in 1..(2 * Len(pcd.profits_pre_gas)) |->
                          ToFloat(pcd.profits_pre_gas[(i + 1) \div 2])]]

\* filter_possible_cex_dex (cex_dex.rs:308-331).
FilterPossibleCexDex(pcd, rt) ==
    IF BasicCondition(pcd, rt) \/ IsKnownCexDexContract(rt)
    THEN Some(BuildBundleType(pcd, rt))
    ELSE None

\* SharedInspectorUtils::usd_delta_by_address(.., use_cex = true): None when a
\* token delta cannot be converted to the quote asset.
UsdDeltaByAddress(md) == md.usd_deltas

\* The header's profit_usd (cex_dex.rs:136).
HeaderProfitUsd(pcd) == RZero

\* process_swaps after gas_accounting (cex_dex.rs:91-141).
CexDexBundle(pcd, rt, md) ==
    LET cex_dex == FilterPossibleCexDex(pcd, rt)
        gas_finalized == GetGasPriceUsd(md, rt.gas_details.gas_paid)
    IN IF ~cex_dex.some THEN None
       ELSE IF ~UsdDeltaByAddress(md).some THEN None
       ELSE Some([header |-> [tx_hash |-> rt.tx_hash,
                              mev_type |-> "CexDex",
                              profit_usd |-> HeaderProfitUsd(pcd),
                              bribe_usd |-> ToFloat(gas_finalized)],
                  data |-> cex_dex.val])

DefaultRoot ==
    [tx_hash |-> "0x00",
     head |-> [unclassified |-> FALSE, is_cex_dex_call |-> FALSE],
     gas_details |-> [gas_paid |-> 0, coinbase_transfer |-> None]]

CexDexIdle ==
    /\ cex_exchanges = <<>>
    /\ cd_swaps = <<>>
    /\ token_decimals = <<>>
    /\ metadata = <<>>
    /\ cex_fees = <<>>
    /\ root = DefaultRoot
    /\ swaps_with_profit_by_exchange = None
    /\ possible_cex_dex = None
    /\ cd_bundle = None
    /\ cd_pc = "idle"

InspIdle == ArbIdle /\ CexDexIdle

(***************************************************************************)
(* FlattenSpecified (crates/brontes-types/src/tree/util/flatten.rs).       *)
(***************************************************************************)
\* Items: a plain action, or a wrapper around child actions.
PlainItem(id) == [kind |-> "plain", id |-> id]
WrapperItem(children) == [kind |-> "wrapper", children |-> children]

\* The `wanted` closure: the wrapped value of a wrapper, None otherwise.
Wanted(item) ==
    IF item.kind = "wrapper" THEN Some(item.children) ELSE None

\* The `transform` closure: the child actions, as a Vec.
Transform(r) == r

Front(seq) == SubSeq(seq, 1, Len(seq) - 1)
Last(seq) == seq[Len(seq)]

\* Vec::pop: the last element, if any.
Pop(vec) == IF vec = <<>> THEN None ELSE Some(Last(vec))

\* flatten.rs:40-42: what next() returns for a wanted item.
ExpandNow(item, ret) == Pop(ret)

\* FlattenSpecified::next (flatten.rs:32-47): the iterator after the call and
\* the value returned.
FlattenSpecifiedNext(iter, extra) ==
    IF extra # <<>>
    THEN [iter |-> iter, extra |-> Front(extra), ret |-> Pop(extra)]
    ELSE IF iter = <<>>
    THEN [iter |-> iter, extra |-> extra, ret |-> None]
    ELSE LET item == Head(iter)
         IN IF Wanted(item).some
            THEN LET ret == Transform(Wanted(item).val)
                 IN [iter |-> Tail(iter),
                     extra |-> extra \o (IF ret = <<>> THEN <<>> ELSE Front(ret)),
                     ret |-> ExpandNow(item, ret)]
            ELSE [iter |-> Tail(iter), extra |-> extra, ret |-> Some(item)]

FlattenIdle ==
    /\ fs_items = <<>>
    /\ fs_iter = <<>>
    /\ fs_extra = <<>>
    /\ fs_out = <<>>
    /\ fs_pc = "idle"

(***************************************************************************)
(* TokenProfits (crates/brontes-types/src/mev/bundle/header.rs).           *)
(***************************************************************************)
\* header.rs:68: the entry of `profits` that `find` returns for `profit`.
SameKey(p, profit) ==
    p.profit_collector = profit.profit_collector /\ p.token = profit.token

\* Mutant: every matching entry is raised, not only the first.
ComposeOne_AllMatches(profits, profit) ==
    [i \in 1..Len(profits) |->
        IF SameKey(profits[i], profit) /\ profits[i].amount < profit.amount
        THEN [profits[i] EXCEPT !.amount = profit.amount]
        ELSE profits[i]]

\* header.rs:64-74: the body of the loop for one entry of to_compose.
ComposeOne(profits, profit) ==
    LET matches == {i \in 1..Len(profits) : SameKey(profits[i], profit)}
    IN IF matches = {} THEN profits
       ELSE LET i == MinOf(matches)
            IN IF profits[i].amount < profit.amount
               THEN [profits EXCEPT ![i].amount = profit.amount]
               ELSE profits

\* TokenProfits::compose (header.rs:63-76).
RECURSIVE Compose(_, _)
Compose(profits, to_compose) ==
    IF to_compose = <<>> THEN profits
    ELSE Compose(ComposeOne(profits, Head(to_compose)), Tail(to_compose))

ComposeIdle ==
    /\ tp_old = <<>>
    /\ tp_self = <<>>
    /\ tp_other = <<>>
    /\ tp_calls = 0

UtilIdle == FlattenIdle /\ ComposeIdle

NonExecIdle == MulIdle /\ PriceIdle /\ InspIdle /\ UtilIdle

(***************************************************************************)
(* The state collector (spec 4.3).  One stage per block slot.              *)
(***************************************************************************)
Blocks == 0..(MaxBlock + 1)

Stages == {"Idle", "CollectingTraces", "BuildingTree", "FetchingDexPrices",
           "Ready", "Emitted"}

IntermediateStages == {"CollectingTraces", "BuildingTree", "FetchingDexPrices",
                       "Ready"}

NextStage(s) ==
    CASE s = "CollectingTraces" -> "BuildingTree"
      [] s = "BuildingTree" -> "FetchingDexPrices"
      [] s = "FetchingDexPrices" -> "Ready"
      [] OTHER -> s

NewCollector ==
    [stage |-> [b \in Blocks |-> "Idle"], capacity |-> TRUE, finished |-> FALSE]

\* is_collecting_state(): some slot is in a non-terminal intermediate stage.
IsCollectingState(c) == \E b \in Blocks : c.stage[b] \in IntermediateStages

\* should_process_next_block(): every slot Idle or Emitted, and capacity remains.
ShouldProcessNextBlock(c) ==
    /\ \A b \in Blocks : c.stage[b] \in {"Idle", "Emitted"}
    /\ c.capacity

\* fetch_state_for(block): the block's slot enters CollectingTraces.
FetchStateFor(c, b) == [c EXCEPT !.stage[b] = "CollectingTraces"]

\* range_finished(): signals terminal.
RangeFinished(c) == [c EXCEPT !.finished = TRUE]

ReadyBlocks(c) == {b \in Blocks : c.stage[b] = "Ready"}

\* poll_next(): the lowest Ready slot is yielded (block order); Finished (None)
\* once range_finished() was called and the collector is drained; else NotReady.
PollNext(c) ==
    IF ReadyBlocks(c) # {}
    THEN [kind |-> "Some", block |-> MinOf(ReadyBlocks(c)),
          c |-> [c EXCEPT !.stage[MinOf(ReadyBlocks(c))] = "Emitted"]]
    ELSE IF c.finished /\ ~IsCollectingState(c)
         THEN [kind |-> "None", block |-> 0, c |-> c]
         ELSE [kind |-> "Pending", block |-> 0, c |-> c]

(***************************************************************************)
(* The range executor.                                                     *)
(***************************************************************************)
\* Mutant: the fetch ignores the collector's state.
ShouldFetch_IgnoresCollector(c, cur, end) == cur # end

\* range.rs:80-82, the guard of the fetch.
ShouldFetch(c, cur, end) ==
    /\ ~IsCollectingState(c)
    /\ ShouldProcessNextBlock(c)
    /\ cur # end

\* Mutant: the block counter skips a block.
AdvanceBlock_Skips(cur) == cur + 2

\* range.rs:86, `self.current_block += 1`.
AdvanceBlock(cur) == cur + 1

\* Mutant: the executor resolves whenever no insertion is in flight.
ResolvesOn_AnyResult(kind, ins) == ins = {}

\* range.rs:94, `None if self.insert_futures.is_empty() => return Poll::Ready(())`.
ResolvesOn(kind, ins) == kind = "None" /\ ins = {}

\* Mutant: an insertion still in flight does not hold the mark back.
ShouldMarkFinished_IgnoresInserts(c, cur, end, ins) ==
    /\ cur = end
    /\ ~IsCollectingState(c)

\* Mutant: the range is never marked finished.
ShouldMarkFinished_Never(c, cur, end, ins) == FALSE

\* range.rs:103-105, the guard of range_finished().
ShouldMarkFinished(c, cur, end, ins) ==
    /\ cur = end
    /\ ins = {}
    /\ ~IsCollectingState(c)

\* range.rs:111, `if work == 0`.
BudgetExhausted(w) == w = 0

\* Mutant: poll returns Pending without waking its waker.
WakeByRef_Skipped(w) == w

\* range.rs:112, `cx.waker().wake_by_ref()`: the task is scheduled again.
WakeByRef(w) == TRUE

InitExec ==
    /\ start_block \in 0..MaxBlock
    /\ end_block \in 0..MaxBlock
    /\ current_block = start_block
    /\ collector = NewCollector
    /\ insert_futures = {}
    /\ work = 0
    /\ pollState = "idle"
    /\ woken = TRUE
    /\ run = "selecting"
    /\ shutdown = FALSE
    /\ fetched = <<>>
    /\ yielded = {}
    /\ completed = {}
    /\ finishCalls = 0
    /\ NonExecIdle

\* tokio::select! polls the executor: poll is entered with a fresh budget.
PollEnter ==
    /\ UNCHANGED nonExecVars
    /\ run = "selecting"
    /\ pollState = "idle"
    /\ woken
    /\ pollState' = "polling"
    /\ work' = WorkBudget
    /\ woken' = FALSE
    /\ UNCHANGED <<start_block, end_block, current_block, collector,
                   insert_futures, run, shutdown, fetched, yielded, completed,
                   finishCalls>>

\* One iteration of the loop of poll (range.rs:79-115).  `done` is the set of
\* in-flight insertion futures that are ready when polled at line 100.
PollIter ==
    /\ UNCHANGED nonExecVars
    /\ run = "selecting"
    /\ pollState = "polling"
    /\ LET doFetch == /\ ShouldFetch(collector, current_block, end_block)
                      /\ current_block <= MaxBlock
           c1 == IF doFetch THEN FetchStateFor(collector, current_block)
                 ELSE collector
           cur1 == IF doFetch THEN AdvanceBlock(current_block) ELSE current_block
           fetched1 == IF doFetch THEN Append(fetched, current_block) ELSE fetched
           pn == PollNext(c1)
           ins1 == IF pn.kind = "Some" THEN insert_futures \cup {pn.block}
                   ELSE insert_futures
           yielded1 == IF pn.kind = "Some" THEN yielded \cup {pn.block}
                       ELSE yielded
       IN IF ResolvesOn(pn.kind, insert_futures)
          THEN /\ pollState' = "ready"
               /\ run' = "returned"
               /\ collector' = pn.c
               /\ current_block' = cur1
               /\ fetched' = fetched1
               /\ UNCHANGED <<start_block, end_block, insert_futures, work,
                              woken, shutdown, yielded, completed, finishCalls>>
          ELSE \E done \in SUBSET ins1 :
               LET ins2 == ins1 \ done
                   doFinish == ShouldMarkFinished(pn.c, cur1, end_block, ins2)
               IN /\ collector' = IF doFinish THEN RangeFinished(pn.c) ELSE pn.c
                  /\ finishCalls' = IF doFinish /\ finishCalls < 2
                                    THEN finishCalls + 1 ELSE finishCalls
                  /\ current_block' = cur1
                  /\ fetched' = fetched1
                  /\ yielded' = yielded1
                  /\ insert_futures' = ins2
                  /\ completed' = completed \cup done
                  /\ work' = work - 1
                  /\ IF BudgetExhausted(work - 1)
                     THEN pollState' = "idle" /\ woken' = WakeByRef(woken)
                     ELSE pollState' = "polling" /\ woken' = woken
                  /\ UNCHANGED <<start_block, end_block, run, shutdown>>

\* The collector's own work on a slot completes (trace fetch, tree build,
\* DEX pricing): the slot moves to its next stage.
CollectorProgress ==
    /\ UNCHANGED nonExecVars
    /\ run = "selecting"
    /\ \E b \in Blocks :
         /\ collector.stage[b] \in {"CollectingTraces", "BuildingTree",
                                    "FetchingDexPrices"}
         /\ collector' = [collector EXCEPT !.stage[b] = NextStage(@)]
    /\ UNCHANGED <<start_block, end_block, current_block, insert_futures, work,
                   pollState, woken, run, shutdown, fetched, yielded, completed,
                   finishCalls>>

\* Backpressure: the collector's capacity comes and goes.
CollectorCapacity ==
    /\ UNCHANGED nonExecVars
    /\ run = "selecting"
    /\ collector' = [collector EXCEPT !.capacity = ~@]
    /\ UNCHANGED <<start_block, end_block, current_block, insert_futures, work,
                   pollState, woken, run, shutdown, fetched, yielded, completed,
                   finishCalls>>

\* The graceful-shutdown signal fires.
ShutdownSignal ==
    /\ UNCHANGED nonExecVars
    /\ run = "selecting"
    /\ ~shutdown
    /\ shutdown' = TRUE
    /\ UNCHANGED <<start_block, end_block, current_block, collector,
                   insert_futures, work, pollState, woken, run, fetched,
                   yielded, completed, finishCalls>>

\* range.rs:53-58: the shutdown branch of select! wins (the executor is not
\* inside poll), the guard is taken and dropped and the call returns; the
\* executor, pinned in the call's frame, is dropped with what it holds.
ShutdownBranch ==
    /\ UNCHANGED nonExecVars
    /\ run = "selecting"
    /\ pollState = "idle"
    /\ shutdown
    /\ run' = "returned"
    /\ UNCHANGED <<start_block, end_block, current_block, collector,
                   insert_futures, work, pollState, woken, shutdown, fetched,
                   yielded, completed, finishCalls>>

NextExec ==
    \/ PollEnter
    \/ PollIter
    \/ CollectorProgress
    \/ CollectorCapacity
    \/ ShutdownSignal
    \/ ShutdownBranch

Spec == InitExec /\ [][NextExec]_vars

\* The executor polled on its own, with no shutdown signal.
NextPolled ==
    \/ PollEnter
    \/ PollIter
    \/ CollectorProgress

\* A loop iteration in which every insertion future in flight completes.
PollIterDrains == PollIter /\ insert_futures' = {} /\ pollState' # "ready"

InitLive == InitExec /\ start_block <= end_block

\* The executor keeps being polled, the collector has capacity, its work on a
\* fetched block completes, and every insertion future completes.
LiveSpec ==
    /\ InitLive
    /\ [][NextPolled]_vars
    /\ WF_vars(PollEnter)
    /\ WF_vars(PollIter)
    /\ WF_vars(CollectorProgress)
    /\ SF_vars(PollIterDrains)

(***************************************************************************)
(* Multiplication of two WindowExchangePrice values.                       *)
(***************************************************************************)
ExecIdle ==
    /\ start_block = 0
    /\ end_block = 0
    /\ current_block = 0
    /\ collector = NewCollector
    /\ insert_futures = {}
    /\ work = 0
    /\ pollState = "idle"
    /\ woken = FALSE
    /\ run = "returned"
    /\ shutdown = FALSE
    /\ fetched = <<>>
    /\ yielded = {}
    /\ completed = {}
    /\ finishCalls = 0

InitMul ==
    /\ ExecIdle
    /\ UtilIdle
    /\ PriceIdle
    /\ InspIdle
    /\ mul_lhs \in WindowExchangePrices
    /\ mul_rhs \in WindowExchangePrices
    /\ mul_out = None

\* `self * rhs` is evaluated.
ApplyMul ==
    /\ mul_out = None
    /\ mul_out' = Some(Mul(mul_lhs, mul_rhs))
    /\ UNCHANGED <<execVars, utilVars, priceVars, inspVars, mul_lhs, mul_rhs>>

NextMul == ApplyMul

MulSpec == InitMul /\ [][NextMul]_vars


(***************************************************************************)
(* The pricer run on one set of arguments.                                 *)
(***************************************************************************)
InitPrice ==
    /\ ExecIdle
    /\ UtilIdle
    /\ MulIdle
    /\ InspIdle
    /\ block_timestamp \in BlockTimestamps
    /\ fee_sched \in {ZeroFees, SpotFees}
    /\ vol \in {RInt(n) : n \in 1..MaxVol}
    /\ bypass_vol \in BOOLEAN
    /\ \/ /\ \E b \in DirectTrades(block_timestamp, "Binance"),
                c \in DirectTrades(block_timestamp, "Coinbase") :
                trade_map = MkTradeMap(block_timestamp, b, c, {})
          /\ exchanges \in {{"Binance"}, {"Binance", "Coinbase"}}
          /\ config \in Configs
          /\ pair \in {<<"WETH", "DAI">>, <<"DAI", "WETH">>}
       \/ /\ \E b \in {<<>>, << T(block_timestamp, 30000, "Binance",
                                  <<3, 1>>, <<1, 1>>) >>},
                legs \in SUBSET LegKeys :
                trade_map = MkTradeMap(block_timestamp, b, <<>>, legs)
          /\ exchanges = {"Binance"}
          /\ config = [time_window_before_us |-> 100000,
                       time_window_after_us |-> 70000]
          /\ pair \in PricedPairs
    /\ vw = [pc |-> "init"]
    /\ vwap_out = None
    /\ price_out = None
    /\ flip_out = None
    /\ via_out = None
    /\ via_order = <<>>

View(p) == NewFromCexTradeMap(trade_map, block_timestamp, exchanges, p)

\* get_vwap_price(pair, vol) is entered: get_trades, then the walker
\* (time_window_vwam.rs:296-306).
VwapStart ==
    /\ vw.pc = "init"
    /\ IF GetTrades(View(pair), exchanges, pair).some
       THEN /\ \/ vw' = StartLoop(GetTrades(View(pair), exchanges, pair).val,
                                  block_timestamp)
               \/ /\ SubOverflows(block_timestamp, START_PRE_TIME_US)
                  /\ vw' = [pc |-> "panicked"]
            /\ UNCHANGED vwap_out
       ELSE /\ vw' = [pc |-> "done"]
            /\ vwap_out' = None
    /\ UNCHANGED <<execVars, utilVars, mulVars, inspVars, priceArgs, price_out,
                   flip_out, via_out, via_order>>

\* The loop condition is evaluated and, if it holds, one iteration runs.
VwapLoop ==
    /\ vw.pc = "head"
    /\ vw' = VwapLoopStep(vw, config, pair, vol, block_timestamp)
    /\ UNCHANGED <<execVars, utilVars, mulVars, inspVars, priceArgs, vwap_out,
                   price_out, flip_out, via_out, via_order>>

\* get_vwap_price returns (time_window_vwam.rs:358-435).
VwapFinish ==
    /\ vw.pc = "post"
    /\ vwap_out' = Aggregate(vw, pair, vol, bypass_vol)
    /\ vw' = [vw EXCEPT !.pc = "done"]
    /\ UNCHANGED <<execVars, utilVars, mulVars, inspVars, priceArgs, price_out,
                   flip_out, via_out, via_order>>

\* On the same arguments: get_price(pair), get_price(pair.flip()) and
\* get_vwap_price_via_intermediary(pair).
PriceCall ==
    /\ vw.pc = "done"
    /\ \E order \in OrdersOf(View(pair).intermediaries) :
         /\ via_order' = order
         /\ via_out' = GetVwapPriceViaIntermediary(View(pair), config, exchanges,
                           pair, vol, block_timestamp, bypass_vol, order)
         /\ price_out' = GetPrice(View(pair), config, exchanges, pair, vol,
                                  block_timestamp, bypass_vol, order)
         /\ flip_out' = GetPrice(View(Flip(pair)), config, exchanges, Flip(pair),
                                 vol, block_timestamp, bypass_vol, order)
    /\ vw' = [vw EXCEPT !.pc = "priced"]
    /\ UNCHANGED <<execVars, utilVars, mulVars, inspVars, priceArgs, vwap_out>>

NextPrice ==
    \/ VwapStart
    \/ VwapLoop
    \/ VwapFinish
    \/ PriceCall

PriceSpec == InitPrice /\ [][NextPrice]_vars

\* The step-by-step run of get_vwap_price and its evaluation in one go agree.
StepwiseAgrees ==
    vw.pc \in {"done", "priced"} =>
        vwap_out = GetVwapPrice(View(pair), config, exchanges, pair, vol,
                                block_timestamp, bypass_vol)

(***************************************************************************)
(* get_vwap_price alone, on windows that expand far and on early blocks.   *)
(***************************************************************************)
EarlyBlockTimestamps == {0, 20000}

\* Trade vectors of the pair (DAI, WETH), sorted by timestamp: trades before
\* the initial window, far behind it, and a trade of amount zero.
WindowTrades(B, ex) ==
    IF ex = "Binance"
    THEN { <<>>,
           << T(B, -55000, ex, <<2, 1>>, <<1, 1>>),
              T(B, 30000, ex, <<3, 1>>, <<1, 1>>) >>,
           << T(B, 0, ex, <<2, 1>>, <<1, 1>>),
              T(B, 305000, ex, <<4, 1>>, <<2, 1>>) >>,
           << T(B, 55000, ex, <<1, 2>>, <<1, 2>>),
              T(B, 65000, ex, <<1, 1>>, <<2, 1>>) >> }
    ELSE { <<>>,
           << T(B, 10000, ex, <<5, 2>>, <<0, 1>>) >>,
           << T(B, -20000, ex, <<3, 1>>, <<1, 2>>),
              T(B, 58000, ex, <<3, 1>>, <<1, 2>>) >> }

\* Trades at and after an early block.
EarlyTrades(B, ex) ==
    IF ex = "Binance"
    THEN { << T(B, 0, ex, <<2, 1>>, <<1, 1>>),
              T(B, 30000, ex, <<3, 1>>, <<3, 1>>) >> }
    ELSE { <<>>, << T(B, 10000, ex, <<5, 2>>, <<1, 1>>) >> }

WindowConfigs ==
    { [time_window_before_us |-> 100000, time_window_after_us |-> 70000],
      [time_window_before_us |-> 60000, time_window_after_us |-> 50000],
      [time_window_before_us |-> 70000, time_window_after_us |-> 330000] }

InitWindow ==
    /\ ExecIdle
    /\ UtilIdle
    /\ MulIdle
    /\ InspIdle
    /\ fee_sched \in {ZeroFees, SpotFees}
    /\ vol \in {RInt(n) : n \in 1..MaxVol}
    /\ bypass_vol \in BOOLEAN
    /\ exchanges = {"Binance", "Coinbase"}
    /\ pair \in {<<"WETH", "DAI">>, <<"DAI", "WETH">>}
    /\ config \in WindowConfigs
    /\ \/ /\ block_timestamp \in BlockTimestamps
          /\ \E b \in WindowTrades(block_timestamp, "Binance"),
                c \in WindowTrades(block_timestamp, "Coinbase") :
                trade_map = MkTradeMap(block_timestamp, b, c, {})
       \/ /\ block_timestamp \in EarlyBlockTimestamps
          /\ \E b \in EarlyTrades(block_timestamp, "Binance"),
                c \in EarlyTrades(block_timestamp, "Coinbase") :
                trade_map = MkTradeMap(block_timestamp, b, c, {})
    /\ vw = [pc |-> "init"]
    /\ vwap_out = None
    /\ price_out = None
    /\ flip_out = None
    /\ via_out = None
    /\ via_order = <<>>

NextWindow ==
    \/ VwapStart
    \/ VwapLoop
    \/ VwapFinish

\* get_vwap_price is a synchronous call: once in its loop it keeps taking
\* steps.  A step of VwapLoop is possible exactly when vw.pc = "head" and
\* always changes vw, so the condition is weak fairness of VwapLoop.
WindowSpec ==
    /\ InitWindow
    /\ [][NextWindow]_vars
    /\ ([]<>(vw.pc # "head") \/ []<><<VwapLoop>>_vars)


(***************************************************************************)
(* The atomic-arb inspector run on one transaction.                        *)
(***************************************************************************)
InitArb ==
    /\ ExecIdle
    /\ UtilIdle
    /\ MulIdle
    /\ PriceIdle
    /\ CexDexIdle
    /\ \/ /\ \E S \in SeqsUpTo(ArbSwaps, MaxSwaps) :
                searcher_actions = [i \in 1..Len(S) |-> SwapAction(S[i])]
          /\ rev_usd \in {None} \cup {Some(RInt(n)) : n \in 0..3}
          /\ gas_used_usd \in {RInt(1), RInt(2)}
       \/ /\ searcher_actions \in SeqsUpTo(ArbActions, MaxSwaps)
          /\ rev_usd = Some(RInt(3))
          /\ gas_used_usd = RInt(1)
    /\ arb_swaps = <<>>
    /\ possible_arb_type = None
    /\ arb_bundle = None
    /\ arb_pc = "start"

\* process_swaps calls is_possible_arb (atomic_backrun.rs:79).
ArbClassify ==
    /\ arb_pc = "start"
    /\ arb_swaps' = FlattenSwaps(searcher_actions)
    /\ possible_arb_type' = IsPossibleArb(arb_swaps')
    /\ arb_pc' = "classified"
    /\ UNCHANGED <<execVars, utilVars, mulVars, priceVars, cdVars, searcher_actions,
                   rev_usd, gas_used_usd, arb_bundle>>

\* process_swaps computes the profit and returns (atomic_backrun.rs:81-110).
ArbProcess ==
    /\ arb_pc = "classified"
    /\ arb_bundle' = IF possible_arb_type.some
                     THEN ArbBundle(possible_arb_type.val, searcher_actions,
                                    rev_usd, gas_used_usd)
                     ELSE None
    /\ arb_pc' = "done"
    /\ UNCHANGED <<execVars, utilVars, mulVars, priceVars, cdVars, searcher_actions,
                   arb_swaps, rev_usd, gas_used_usd, possible_arb_type>>

NextArb ==
    \/ ArbClassify
    \/ ArbProcess

ArbSpec == InitArb /\ [][NextArb]_vars

(***************************************************************************)
(* The CEX/DEX inspector run on one transaction.                           *)
(***************************************************************************)
CexPair == <<"USDC", "WETH">>

CexSwaps ==
    { [token_in |-> "WETH", token_out |-> "USDC", amount_in |-> 10,
       amount_out |-> 2],
      [token_in |-> "WETH", token_out |-> "USDC", amount_in |-> 10,
       amount_out |-> 0],
      [token_in |-> "USDC", token_out |-> "WETH", amount_in |-> 3,
       amount_out |-> 10],
      [token_in |-> "USDC", token_out |-> "WETH", amount_in |-> 2,
       amount_out |-> 20] }

\* The token_decimals table: WETH has 1 decimal and USDC none, where known.
DecimalTables ==
    { [t \in {"WETH", "USDC"} |-> IF t \in known
                                  THEN Some(IF t = "WETH" THEN 1 ELSE 0)
                                  ELSE None] :
        known \in {{"WETH", "USDC"}, {"WETH"}, {"USDC"}} }

CexQuote(price) == [price |-> <<price, price>>]

\* What one exchange quotes for CexPair: directly and via an intermediary.
ExchangeQuotes ==
    { [direct |-> None, via |-> None],
      [direct |-> Some(CexQuote(RInt(3))), via |-> Some(CexQuote(RInt(3)))],
      [direct |-> None, via |-> Some(CexQuote(RInt(3)))],
      [direct |-> Some(CexQuote(RInt(2))), via |-> None] }

MkCexQuotes(q) ==
    [direct |-> [p \in {CexPair} |-> [ex \in Exchanges |-> q[ex].direct]],
     via |-> [p \in {CexPair} |-> [ex \in Exchanges |-> q[ex].via]]]

ExchangeLists ==
    { <<"Binance">>, <<"Binance", "Coinbase">>, <<"Coinbase", "Binance">> }

MkRoot(unclassified, call, transfer, gas_paid) ==
    [tx_hash |-> "0x21",
     head |-> [unclassified |-> unclassified, is_cex_dex_call |-> call],
     gas_details |-> [gas_paid |-> gas_paid, coinbase_transfer |-> transfer]]

\* Transactions: the root, and whether the USD deltas can be computed.
Transactions ==
    { <<MkRoot(TRUE, FALSE, None, 1), TRUE>>,
      <<MkRoot(TRUE, FALSE, None, 40), TRUE>>,
      <<MkRoot(TRUE, FALSE, Some(5), 40), TRUE>>,
      <<MkRoot(TRUE, TRUE, None, 40), TRUE>>,
      <<MkRoot(FALSE, TRUE, Some(5), 1), TRUE>>,
      <<MkRoot(FALSE, FALSE, None, 1), TRUE>>,
      <<MkRoot(TRUE, FALSE, None, 1), FALSE>>,
      <<MkRoot(TRUE, TRUE, None, 40), FALSE>> }

\* Transactions with a plain unclassified head, cheap and expensive in gas.
PlainTransactions ==
    { <<MkRoot(TRUE, FALSE, None, 1), TRUE>>,
      <<MkRoot(TRUE, FALSE, None, 40), TRUE>> }

MkMetadata(q, priced) ==
    [cex_quotes |-> MkCexQuotes(q),
     eth_prices |-> RInt(2),
     usd_deltas |-> IF priced THEN Some("deltas") ELSE None]

InitCexDex ==
    /\ ExecIdle
    /\ UtilIdle
    /\ MulIdle
    /\ PriceIdle
    /\ ArbIdle
    /\ cd_swaps \in SeqsUpTo(CexSwaps, MaxCexSwaps) \ {<<>>}
    /\ \/ \* every quote table, exchange list, fee schedule and decimals table
          /\ cex_exchanges \in ExchangeLists
          /\ token_decimals \in DecimalTables
          /\ cex_fees \in {ZeroFees, SpotFees}
          /\ \E q \in [Exchanges -> ExchangeQuotes], tx \in PlainTransactions :
                /\ root = tx[1]
                /\ metadata = MkMetadata(q, tx[2])
       \/ \* every kind of transaction
          /\ cex_exchanges = <<"Binance", "Coinbase">>
          /\ token_decimals \in {d \in DecimalTables : \A t \in DOMAIN d : d[t].some}
          /\ cex_fees = ZeroFees
          /\ \E q \in {q \in [Exchanges -> ExchangeQuotes] :
                          \A e1, e2 \in Exchanges :
                              q[e1] = q[e2] /\ q[e1].direct = q[e1].via},
                tx \in Transactions :
                /\ root = tx[1]
                /\ metadata = MkMetadata(q, tx[2])
    /\ swaps_with_profit_by_exchange = None
    /\ possible_cex_dex = None
    /\ cd_bundle = None
    /\ cd_pc = "start"

\* process_swaps (cex_dex.rs:65-142).
ProcessSwaps ==
    /\ cd_pc = "start"
    /\ LET swpe == SwapsWithProfitByExchange(cd_swaps, metadata, cex_exchanges,
                                             token_decimals)
       IN IF IsPanic(swpe)
          THEN /\ cd_pc' = "panicked"
               /\ UNCHANGED <<swaps_with_profit_by_exchange, possible_cex_dex,
                              cd_bundle>>
          ELSE LET pcd == GasAccounting(swpe.val, root.gas_details,
                                        metadata.eth_prices)
               IN /\ swaps_with_profit_by_exchange' = swpe
                  /\ possible_cex_dex' = Some(pcd)
                  /\ cd_bundle' = CexDexBundle(pcd, root, metadata)
                  /\ cd_pc' = "done"
    /\ UNCHANGED <<execVars, utilVars, mulVars, priceVars, arbVars, cdArgs>>

NextCexDex == ProcessSwaps

CexDexSpec == InitCexDex /\ [][NextCexDex]_vars

(***************************************************************************)
(* FlattenSpecified driven by a consumer that stops at the first None.     *)
(***************************************************************************)
FlattenItems ==
    { PlainItem(1), PlainItem(2),
      WrapperItem(<< PlainItem(3), PlainItem(4) >>),
      WrapperItem(<< PlainItem(5) >>),
      WrapperItem(<<>>) }

InitFlatten ==
    /\ ExecIdle
    /\ MulIdle
    /\ PriceIdle
    /\ InspIdle
    /\ ComposeIdle
    /\ fs_items \in SeqsUpTo(FlattenItems, MaxItems)
    /\ fs_iter = fs_items
    /\ fs_extra = <<>>
    /\ fs_out = <<>>
    /\ fs_pc = "running"

\* One call of next() (flatten.rs:32-47).
FlattenNext ==
    /\ fs_pc = "running"
    /\ LET r == FlattenSpecifiedNext(fs_iter, fs_extra)
       IN /\ fs_iter' = r.iter
          /\ fs_extra' = r.extra
          /\ IF r.ret.some
             THEN fs_out' = Append(fs_out, r.ret.val) /\ fs_pc' = "running"
             ELSE fs_out' = fs_out /\ fs_pc' = "ended"
    /\ UNCHANGED <<execVars, mulVars, priceVars, inspVars, tpVars, fs_items>>

NextFlatten == FlattenNext

FlattenSpec == InitFlatten /\ [][NextFlatten]_vars

(***************************************************************************)
(* TokenProfits::compose called on one pair of values, twice.              *)
(***************************************************************************)
\* TokenProfit entries: two keys, three amounts, a usd_value of their own.
TokenProfitMenu ==
    { [profit_collector |-> k[1], token |-> k[2], amount |-> a,
       usd_value |-> 10 * a + k[3]] :
        k \in { <<"0xc1", "WETH", 0>>, <<"0xc1", "USDC", 5>> }, a \in 1..3 }

InitCompose ==
    /\ ExecIdle
    /\ MulIdle
    /\ PriceIdle
    /\ InspIdle
    /\ FlattenIdle
    /\ tp_self \in SeqsUpTo(TokenProfitMenu, MaxProfits)
    /\ tp_other \in SeqsUpTo(TokenProfitMenu, MaxProfits)
    /\ tp_old = tp_self
    /\ tp_calls = 0

\* self.compose(&to_compose) (header.rs:63-76).
TokenProfitsCompose ==
    /\ tp_calls < 2
    /\ tp_self' = Compose(tp_self, tp_other)
    /\ tp_calls' = tp_calls + 1
    /\ UNCHANGED <<execVars, mulVars, priceVars, inspVars, fsVars, tp_old,
                   tp_other>>

NextCompose == TokenProfitsCompose

ComposeSpec == InitCompose /\ [][NextCompose]_vars

(***************************************************************************)
(* Claims about the range executor.                                        *)
(***************************************************************************)
\* C1: when the graceful-shutdown signal fires, every insertion future that is
\* in flight runs to completion before run_until_graceful_shutdown returns:
\* the call never returns while an insertion future is still unfinished.
C1_InsertionsFinishBeforeReturn == run = "returned" => insert_futures = {}

RangeSeq(lo, n) == [i \in 1..n |-> lo + i - 1]

\* C2: for start_block <= end_block the blocks passed to fetch_state_for are a
\* prefix of start_block, start_block+1, ..., end_block-1 (each once, in
\* order, no gaps, never end_block), and the whole range once the executor
\* has resolved.
C2_FetchedIsRangePrefix ==
    start_block <= end_block =>
        /\ Len(fetched) <= end_block - start_block
        /\ fetched = RangeSeq(start_block, Len(fetched))
        /\ current_block = start_block + Len(fetched)
        /\ (pollState = "ready" => Len(fetched) = end_block - start_block)

C2_Witness ==
    /\ pollState = "ready"
    /\ start_block = 0
    /\ end_block = MaxBlock
    /\ fetched = RangeSeq(0, MaxBlock)

\* C3: the executor resolves only when the collector has reported Finished and
\* no insertion future is in flight; every tuple the collector yielded has had
\* its insertion future spawned and completed by then.
C3_ResolvesOnlyWhenDrained ==
    pollState = "ready" =>
        /\ collector.finished
        /\ PollNext(collector).kind = "None"
        /\ insert_futures = {}
        /\ yielded \subseteq completed

C3_Witness ==
    /\ pollState = "ready"
    /\ Cardinality(yielded) >= 2
    /\ yielded = completed

CollectingTracesBlocks == {b \in Blocks : collector.stage[b] = "CollectingTraces"}

\* C4: fetch_state_for is called only while the collector is not collecting and
\* should_process_next_block() holds; at most one block is in CollectingTraces
\* at any time; current_block advances only in a step that calls
\* fetch_state_for.
C4_FetchOnlyWhenCollectorFree ==
    /\ [](Cardinality(CollectingTracesBlocks) <= 1)
    /\ [][Len(fetched') > Len(fetched) =>
             ~IsCollectingState(collector) /\ ShouldProcessNextBlock(collector)]_vars
    /\ [][current_block' # current_block =>
             /\ Len(fetched') = Len(fetched) + 1
             /\ fetched'[Len(fetched')] = current_block]_vars

\* A block is being collected while more blocks remain: only the guard keeps
\* the next block from being fetched.
C4_Witness ==
    /\ pollState = "polling"
    /\ Cardinality(CollectingTracesBlocks) = 1
    /\ Len(fetched) >= 1
    /\ current_block < end_block

\* C5: for start_block <= end_block, if the executor keeps being polled, the
\* collector yields a tuple for every fetched block and reports Finished after
\* range_finished(), and every insertion completes, the executor eventually
\* resolves.
C5_EventuallyResolves == (start_block <= end_block) => <>(pollState = "ready")

C5_Witness ==
    /\ pollState = "ready"
    /\ end_block - start_block >= 2
    /\ completed = start_block..(end_block - 1)

(***************************************************************************)
(* Claims about the multiplication.                                        *)
(***************************************************************************)
PE(w) == w.exchange_price_with_volume_direct

MulOut == mul_out.val

\* C9: the product p1*p2 has global.price_maker = p1's times p2's (same for
\* price_taker), global.final_start_time the min of the two starts,
\* global.final_end_time the max of the two ends, pairs = p1.pairs followed by
\* p2.pairs, and a per-exchange entry exactly for the exchanges present in
\* both operands, with multiplied prices and min/max window bounds.
C9_ProductLaw ==
    mul_out.some =>
        /\ MulOut.global.price_maker =
              RMul(mul_lhs.global.price_maker, mul_rhs.global.price_maker)
        /\ MulOut.global.price_taker =
              RMul(mul_lhs.global.price_taker, mul_rhs.global.price_taker)
        /\ MulOut.global.final_start_time <= mul_lhs.global.final_start_time
        /\ MulOut.global.final_start_time <= mul_rhs.global.final_start_time
        /\ MulOut.global.final_start_time \in
              {mul_lhs.global.final_start_time, mul_rhs.global.final_start_time}
        /\ MulOut.global.final_end_time >= mul_lhs.global.final_end_time
        /\ MulOut.global.final_end_time >= mul_rhs.global.final_end_time
        /\ MulOut.global.final_end_time \in
              {mul_lhs.global.final_end_time, mul_rhs.global.final_end_time}
        /\ Len(MulOut.pairs) = Len(mul_lhs.pairs) + Len(mul_rhs.pairs)
        /\ SubSeq(MulOut.pairs, 1, Len(mul_lhs.pairs)) = mul_lhs.pairs
        /\ SubSeq(MulOut.pairs, Len(mul_lhs.pairs) + 1, Len(MulOut.pairs))
              = mul_rhs.pairs
        /\ DOMAIN PE(MulOut) = {ex \in Exchanges :
              ex \in DOMAIN PE(mul_lhs) /\ ex \in DOMAIN PE(mul_rhs)}
        /\ \A ex \in DOMAIN PE(MulOut) :
              LET o == PE(MulOut)[ex]
                  a == PE(mul_lhs)[ex]
                  b == PE(mul_rhs)[ex]
              IN /\ o.price_maker = RMul(a.price_maker, b.price_maker)
                 /\ o.price_taker = RMul(a.price_taker, b.price_taker)
                 /\ o.final_start_time <= a.final_start_time
                 /\ o.final_start_time <= b.final_start_time
                 /\ o.final_start_time \in
                       {a.final_start_time, b.final_start_time}
                 /\ o.final_end_time >= a.final_end_time
                 /\ o.final_end_time >= b.final_end_time
                 /\ o.final_end_time \in {a.final_end_time, b.final_end_time}

\* A product of operands that share one exchange only, with different
\* windows and non-empty pair lists.
C9_Witness ==
    /\ mul_out.some
    /\ DOMAIN PE(mul_lhs) = Exchanges
    /\ DOMAIN PE(mul_rhs) = {"Binance"}
    /\ DOMAIN PE(MulOut) = {"Binance"}
    /\ PE(mul_lhs)["Binance"].final_start_time
          > PE(mul_rhs)["Binance"].final_start_time
    /\ Len(MulOut.pairs) = 2
    /\ mul_lhs.global.final_end_time < mul_rhs.global.final_end_time

(***************************************************************************)
(* Claims about the time-window VWAP pricer.                               *)
(***************************************************************************)
\* get_vwap_price has run its loop and returned.
VwapReturned == vw.pc \in {"done", "priced"} /\ "walker" \in DOMAIN vw

\* C6: when the loop of get_vwap_price ends with trade_volume_global below the
\* needed volume and bypass_vol false the result is None; when
\* trade_volume_global is zero the result is None whatever bypass_vol is; and a
\* Some result implies trade_volume_global > 0 and (trade_volume_global >=
\* the needed volume or bypass_vol).
C6_NoneOnInsufficientVolume ==
    VwapReturned =>
        /\ (RLt(vw.trade_volume_global, vol) /\ ~bypass_vol) => ~vwap_out.some
        /\ vw.trade_volume_global = RZero => ~vwap_out.some
        /\ vwap_out.some =>
              /\ RLt(RZero, vw.trade_volume_global)
              /\ RLe(vol, vw.trade_volume_global) \/ bypass_vol

\* Trades were accumulated, but fewer than needed, and the call returned None.
C6_Witness ==
    /\ VwapReturned
    /\ RLt(RZero, vw.trade_volume_global)
    /\ RLt(vw.trade_volume_global, vol)
    /\ ~bypass_vol
    /\ ~vwap_out.some

\* C7: once trade_volume_global has reached the needed volume (equality
\* included) the loop ends: the window is not expanded again and no further
\* trade is pulled or accumulated.
C7_StopsOnceVolumeReached ==
    [][(vw.pc = "head" /\ RLe(vol, vw.trade_volume_global)) =>
          /\ vw'.walker = vw.walker
          /\ vw'.trade_volume_global = vw.trade_volume_global
          /\ vw'.exchange_vxp = vw.exchange_vxp]_vars

\* The prices get_vwap_price_via_intermediary composes: one per intermediary
\* whose two legs are both priced.
ViaCandidates ==
    {c \in {IntermediaryPrice(View(pair), config, exchanges, pair, vol,
                              block_timestamp, bypass_vol, x) :
               x \in View(pair).intermediaries} : c.some}

\* C8: get_vwap_price_via_intermediary returns None exactly when no
\* intermediary has both legs priced, and otherwise one of the composed prices,
\* whose global.price_maker is the greatest among them.
C8_ViaReturnsMaxMaker ==
    vw.pc = "priced" =>
        /\ via_out.some <=> ViaCandidates # {}
        /\ via_out.some =>
              /\ via_out \in ViaCandidates
              /\ \A c \in ViaCandidates :
                    RLe(c.val.global.price_maker,
                        via_out.val.global.price_maker)

\* Two intermediaries are priced, with different price_maker, and the one
\* iterated first is the greater.
C8_Witness ==
    /\ vw.pc = "priced"
    /\ Len(via_order) = 2
    /\ Cardinality(ViaCandidates) = 2
    /\ \E c \in ViaCandidates :
          RLt(c.val.global.price_maker, via_out.val.global.price_maker)
    /\ via_out = IntermediaryPrice(View(pair), config, exchanges, pair, vol,
                                   block_timestamp, bypass_vol, via_order[1])

\* C10: get_price of (A,B) and of (B,A) both succeed or both fail, and with
\* zero fees their global.price_maker are reciprocals of each other.
C10_FlipIsReciprocal ==
    (vw.pc = "priced" /\ pair[1] # pair[2]) =>
        /\ price_out.some <=> flip_out.some
        /\ (price_out.some /\ fee_sched = ZeroFees) =>
              RMul(price_out.val.global.price_maker,
                   flip_out.val.global.price_maker) = ROne

(***************************************************************************)
(* Claims about the atomic-arb inspector.                                  *)
(***************************************************************************)
\* The class the shape rules give to a flattened swap list.
SpecifiedArbType(S) ==
    IF Len(S) <= 1 THEN "LongTail"
    ELSE IF Len(S) = 2
    THEN IF S[1].token_in = S[2].token_out /\ S[1].token_out = S[2].token_in
         THEN "Triangle" ELSE "CrossPair"
    ELSE IF S[1].token_in # S[Len(S)].token_out THEN "LongTail"
    ELSE IF \A i \in 2..Len(S) : S[i].token_in = S[i - 1].token_out
    THEN "Triangle" ELSE "CrossPair"

\* C11: the shape classifier is total: for every flattened swap list it
\* returns exactly one of LongTail, Triangle and CrossPair, the one the shape
\* rules give.
C11_ClassifierTotalAndAsSpecified ==
    arb_pc \in {"classified", "done"} =>
        /\ possible_arb_type.some
        /\ possible_arb_type.val \in {"LongTail", "Triangle", "CrossPair"}
        /\ possible_arb_type.val = SpecifiedArbType(arb_swaps)

\* Three swaps that start and end in the same token, chained at the second
\* swap and broken at the third.
C11_Witness ==
    /\ arb_pc = "classified"
    /\ Len(arb_swaps) = 3
    /\ arb_swaps[2].token_in = arb_swaps[1].token_out
    /\ arb_swaps[3].token_in # arb_swaps[2].token_out
    /\ possible_arb_type = Some("CrossPair")

\* C12: an emitted bundle has profit = rev_usd - gas_used_usd > 0; a LongTail
\* shape, an unpriced revenue, or a revenue minus gas <= 0 gives no bundle.
C12_EmittedArbIsProfitable ==
    arb_pc = "done" =>
        /\ arb_bundle.some =>
              /\ rev_usd.some
              /\ arb_bundle.val.profit = RSub(rev_usd.val, gas_used_usd)
              /\ RLt(RZero, arb_bundle.val.profit)
              /\ arb_bundle.val.header.profit_usd
                    = ToFloat(RSub(rev_usd.val, gas_used_usd))
        /\ possible_arb_type.val = "LongTail" => ~arb_bundle.some
        /\ ~rev_usd.some => ~arb_bundle.some
        /\ (rev_usd.some /\ RLe(RSub(rev_usd.val, gas_used_usd), RZero)) =>
              ~arb_bundle.some

\* A triangle of three swaps whose revenue exceeds the gas cost is emitted.
C12_Witness ==
    /\ arb_pc = "done"
    /\ Len(arb_swaps) = 3
    /\ possible_arb_type = Some("Triangle")
    /\ arb_bundle.some
    /\ arb_bundle.val.profit = ROne

\* C24: the swaps of an emitted bundle's payload are the flattened list S
\* that was classified: every top-level swap and every swap child of a flash
\* loan, in order.
C24_PayloadIsFlattenedList ==
    (arb_pc = "done" /\ arb_bundle.some) =>
        arb_bundle.val.swaps = arb_swaps

\* C25: a swap list classified as CrossPair starts and ends in the same token
\* and has a break in the linkage between consecutive swaps.
C25_CrossPairStartsAndEndsInSameAsset ==
    (arb_pc \in {"classified", "done"}
        /\ possible_arb_type = Some("CrossPair")) =>
        /\ arb_swaps[1].token_in = arb_swaps[Len(arb_swaps)].token_out
        /\ \E i \in 2..Len(arb_swaps) :
              arb_swaps[i].token_in # arb_swaps[i - 1].token_out

(***************************************************************************)
(* Claims about the CEX/DEX inspector.                                     *)
(***************************************************************************)
Swpe == swaps_with_profit_by_exchange.val
Pcd == possible_cex_dex.val

\* C13: the (exchange, profit) recorded for a swap is one of the swap's
\* candidates and its profit is >= that of every candidate of the swap, and
\* total_arb_pre_gas (pnl plus the gas cost) is the sum of the recorded
\* profits.
C13_PerSwapMaxProfit ==
    cd_pc = "done" =>
        /\ Len(Pcd.exchanges) = Len(Swpe)
        /\ Len(Pcd.profits_pre_gas) = Len(Swpe)
        /\ \A i \in 1..Len(Swpe) :
              /\ Swpe[i].profits # <<>>
              /\ \E j \in 1..Len(Swpe[i].profits) :
                    Swpe[i].profits[j]
                        = <<Pcd.exchanges[i], Pcd.profits_pre_gas[i]>>
              /\ \A j \in 1..Len(Swpe[i].profits) :
                    RLe(Swpe[i].profits[j][2], Pcd.profits_pre_gas[i])
        /\ RAdd(Pcd.pnl, GasCost(root.gas_details, metadata.eth_prices))
              = SumOver(1..Len(Swpe),
                        [i \in 1..Len(Swpe) |-> Pcd.profits_pre_gas[i]])

\* Two swaps were priced, and for one of them the first of two candidates is
\* strictly the better one.
C13_Witness ==
    /\ cd_pc = "done"
    /\ Len(Swpe) = 2
    /\ \E i \in 1..2 :
          /\ Len(Swpe[i].profits) = 2
          /\ RLt(Swpe[i].profits[2][2], Swpe[i].profits[1][2])
          /\ Pcd.exchanges[i] = Swpe[i].profits[1][1]

\* The emission filter of the inspector.
EmissionFilter ==
    \/ RLt(RZero, Pcd.pnl) /\ root.head.unclassified
    \/ root.gas_details.coinbase_transfer.some /\ root.head.unclassified
    \/ IsKnownCexDexContract(root)

\* C14 (as stated): process_swaps emits a bundle iff the emission filter
\* holds; nothing else suppresses or permits the emission.
C14_EmitsIffFilter ==
    cd_pc = "done" => (cd_bundle.some <=> EmissionFilter)

\* C14 (amended): process_swaps emits a bundle iff the emission filter holds
\* and the USD deltas of the transaction can be computed.
C14_EmitsIffFilterAndDeltas ==
    cd_pc = "done" =>
        (cd_bundle.some <=> (EmissionFilter /\ UsdDeltaByAddress(metadata).some))

\* The filter holds through a positive pnl, the USD deltas cannot be computed,
\* and no bundle is emitted.
C14_Witness ==
    /\ cd_pc = "done"
    /\ RLt(RZero, Pcd.pnl)
    /\ root.head.unclassified
    /\ ~UsdDeltaByAddress(metadata).some
    /\ ~cd_bundle.some

\* The profit the formula gives for a swap and a candidate
\* (exchange, cex_price, is_direct).
SpecifiedProfit(swap, cand) ==
    LET dex_price ==
            RDiv(RNorm(swap.amount_in,
                       10 ^ token_decimals[swap.token_in].val),
                 RNorm(swap.amount_out,
                       10 ^ token_decimals[swap.token_out].val))
        sell_amount == RNorm(swap.amount_out,
                             10 ^ token_decimals[swap.token_out].val)
        fee_units == IF cand[3] THEN 1 ELSE 2
    IN RSub(RMul(RSub(cand[2], dex_price), sell_amount),
            RMul(RMul(sell_amount, cex_fees[cand[1]][2]), RInt(fee_units)))

Candidates(swap) == CexQuotesForSwap(swap, metadata, cex_exchanges).val

\* C15: for every swap and candidate (exchange, cex_price, is_direct) the
\* profit is (cex_price - dex_price) * sell_amount
\* - sell_amount * taker_fee * fee_units, with fee_units 1 for a direct quote
\* and 2 for an indirect one.
C15_ProfitFormula ==
    cd_pc = "done" =>
        \A i \in 1..Len(Swpe) :
            /\ Len(Swpe[i].profits) = Len(Candidates(Swpe[i].swap))
            /\ \A j \in 1..Len(Swpe[i].profits) :
                  Swpe[i].profits[j]
                      = <<Candidates(Swpe[i].swap)[j][1],
                          SpecifiedProfit(Swpe[i].swap,
                                          Candidates(Swpe[i].swap)[j])>>

\* A swap has a direct and an indirect candidate, and the taker fees are not
\* zero.
C15_Witness ==
    /\ cd_pc = "done"
    /\ cex_fees = SpotFees
    /\ \E i \in 1..Len(Swpe) :
          /\ Len(Swpe[i].profits) = 2
          /\ Candidates(Swpe[i].swap)[1][3]
          /\ ~Candidates(Swpe[i].swap)[2][3]

\* C16: the header of an emitted bundle reports profit_usd = pnl (non-zero
\* when pnl > 0) and bribe_usd = the gas cost in USD.
C16_HeaderReportsPnl ==
    (cd_pc = "done" /\ cd_bundle.some) =>
        /\ cd_bundle.val.header.profit_usd = ToFloat(Pcd.pnl)
        /\ RLt(RZero, Pcd.pnl) => cd_bundle.val.header.profit_usd # RZero
        /\ cd_bundle.val.header.bribe_usd
              = ToFloat(GasCost(root.gas_details, metadata.eth_prices))

\* C17: when the decimals of the swaps' tokens are available the DEX price
\* computation does not panic, a zero amount_out included.
C17_DexPriceNeverPanics ==
    (\A t \in DOMAIN token_decimals : token_decimals[t].some) =>
        cd_pc # "panicked"

\* The exchange lists that configure the same exchanges.
SameExchanges(exs) ==
    {l \in ExchangeLists :
        {l[i] : i \in 1..Len(l)} = {exs[i] : i \in 1..Len(exs)}}

\* C18: the exchange selected per swap does not depend on the order in which
\* the exchanges are configured.
C18_SelectionIgnoresConfiguredOrder ==
    cd_pc = "done" =>
        \A exs \in SameExchanges(cex_exchanges) :
            GasAccounting(SwapsWithProfitByExchange(cd_swaps, metadata, exs,
                                                    token_decimals).val,
                          root.gas_details, metadata.eth_prices).exchanges
                = Pcd.exchanges

\* C28: every emitted CexDex bundle has at least one swap in its payload.
C28_EmittedBundleHasSwap ==
    (cd_pc = "done" /\ cd_bundle.some) =>
        Len(cd_bundle.val.data.swaps) >= 1

(***************************************************************************)
(* Further claims about the range executor.                                *)
(***************************************************************************)
\* C19: range_finished() is called only when current_block = end_block, no
\* insertion is in flight and the collector is not collecting; after the call
\* no block is fetched and no insertion future is spawned.
C19_RangeFinishedOnlyWhenDone ==
    /\ [][finishCalls' # finishCalls =>
             /\ current_block' = end_block
             /\ insert_futures' = {}
             /\ ~IsCollectingState(collector')]_vars
    /\ [](collector.finished =>
             /\ current_block = end_block
             /\ insert_futures = {}
             /\ ~IsCollectingState(collector))
    /\ [][collector.finished =>
             /\ fetched' = fetched
             /\ yielded' = yielded]_vars

\* The range was marked finished after two blocks went through.
C19_Witness ==
    /\ finishCalls > 0
    /\ collector.finished
    /\ Len(fetched) = 2
    /\ completed = {fetched[1], fetched[2]}

\* C26: current_block stays within [start_block, end_block]; an executor
\* built with start_block > end_block fetches no block, and no fetch takes
\* current_block past end_block.
C26_CurrentBlockWithinRange ==
    /\ start_block <= current_block
    /\ start_block <= end_block => current_block <= end_block
    /\ start_block > end_block => fetched = <<>>
    /\ fetched # <<>> => current_block <= end_block

\* C20: one call of poll runs at most 256 iterations of its loop, and when
\* the budget runs out it wakes its own waker before it returns Pending.
C20_BudgetBoundsPollAndWakes ==
    /\ [](pollState = "polling" => work \in 1..WorkBudget)
    /\ [][(PollIter /\ pollState' # "ready") => work' = work - 1]_vars
    /\ [][(pollState = "polling" /\ pollState' = "idle") =>
             (work' = 0 /\ woken')]_vars

\* The budget ran out while a block was in progress: poll returned Pending
\* with its waker woken.
C20_Witness ==
    /\ pollState = "idle"
    /\ run = "selecting"
    /\ work = 0
    /\ woken
    /\ fetched # <<>>
    /\ ~collector.finished

(***************************************************************************)
(* Further claims about the window-expansion loop of get_vwap_price.       *)
(***************************************************************************)
\* A step of the loop in which the walker's window was expanded.
WindowExpanded ==
    /\ vw.pc = "head"
    /\ vw'.pc = "head"
    /\ \/ vw'.walker.min_timestamp # vw.walker.min_timestamp
       \/ vw'.walker.max_timestamp # vw.walker.max_timestamp

\* C21: the window is never expanded in an iteration at whose end
\* (B - window_start) >= time_window_before_us or
\* (window_end - B) >= time_window_after_us, and the loop terminates.
C21_NoExpansionAtLimitAndTerminates ==
    /\ [][WindowExpanded =>
             /\ block_timestamp - vw.walker.min_timestamp
                    < config.time_window_before_us
             /\ vw.walker.max_timestamp - block_timestamp
                    < config.time_window_after_us]_vars
    /\ (vw.pc = "head" ~> vw.pc = "post")

\* The loop was left at a window limit, short of volume, after the window
\* had been expanded.
C21_Witness ==
    /\ vw.pc = "post"
    /\ RLt(vw.trade_volume_global, vol)
    /\ vw.walker.max_timestamp > block_timestamp + 50000
    /\ \/ block_timestamp - vw.walker.min_timestamp
              >= config.time_window_before_us
       \/ vw.walker.max_timestamp - block_timestamp
              >= config.time_window_after_us

\* C22: the initial window is [B - 50 000, B + 50 000]; every expansion moves
\* the post bound later by exactly TIME_STEP and the pre bound earlier by
\* TIME_STEP only if (window_end - B) >= 300 000 before the step; each window
\* strictly contains the previous one and trade_volume_global never
\* decreases.
C22_AsymmetricExpansion ==
    /\ [][(vw.pc = "init" /\ vw'.pc = "head"
              /\ block_timestamp >= 50000) =>
             /\ vw'.walker.min_timestamp = block_timestamp - 50000
             /\ vw'.walker.max_timestamp = block_timestamp + 50000]_vars
    /\ [][(vw.pc = "head" /\ vw'.pc \in {"head", "post"}) =>
             RLe(vw.trade_volume_global, vw'.trade_volume_global)]_vars
    /\ [][WindowExpanded =>
             /\ vw'.walker.max_timestamp = vw.walker.max_timestamp + 10000
             /\ vw'.walker.min_timestamp =
                    IF vw.walker.max_timestamp - block_timestamp >= 300000
                    THEN vw.walker.min_timestamp - 10000
                    ELSE vw.walker.min_timestamp
             /\ vw'.walker.min_timestamp <= vw.walker.min_timestamp
             /\ vw'.walker.max_timestamp > vw.walker.max_timestamp]_vars

\* The pre bound has been stepped after the post side was explored, and a
\* trade before the initial window was pulled.
C22_Witness ==
    /\ vw.pc \in {"head", "post"}
    /\ block_timestamp >= 50000
    /\ vw.walker.min_timestamp < block_timestamp - 50000
    /\ vw.walker.max_timestamp >= block_timestamp + 310000
    /\ \E ex \in DOMAIN vw.walker.trades :
          \E i \in vw.walker.pulled[ex] :
             vw.walker.trades[ex][i].timestamp < block_timestamp - 50000

\* The trades the walker has pulled, as <<exchange, position>>.
PulledTrades ==
    {x \in (DOMAIN vw.walker.trades) \X (1..4) :
        x[2] \in vw.walker.pulled[x[1]]}

\* The raw and the time-weighted volume of the pulled trades of exchange ex.
RawVolume(ex) ==
    LET S == {x \in PulledTrades : x[1] = ex}
    IN SumOver(S, [x \in S |-> vw.walker.trades[x[1]][x[2]].amount])

WeightedVolume(ex) ==
    LET S == {x \in PulledTrades : x[1] = ex}
    IN SumOver(S, [x \in S |->
           RMul(vw.walker.trades[x[1]][x[2]].amount,
                CalculateWeight(block_timestamp,
                                vw.walker.trades[x[1]][x[2]].timestamp))])

\* C23: when get_vwap_price returns Some, the exchanges with a per-exchange
\* entry are those whose weighted volume is not zero, global.volume is the
\* total raw volume of the accumulated trades, the global maker (taker) price
\* is the sum of per-exchange maker (taker) price times raw volume over the
\* total raw volume, and the global window is [min start, max end] of the
\* per-exchange windows.
C23_GlobalAggregation ==
    (vw.pc = "done" /\ vwap_out.some) =>
        LET out == vwap_out.val
            per == out.exchange_price_with_volume_direct
            total == SumOver(PulledTrades,
                         [x \in PulledTrades |->
                             vw.walker.trades[x[1]][x[2]].amount])
        IN /\ DOMAIN per =
                 {ex \in DOMAIN vw.walker.trades :
                     WeightedVolume(ex) # RZero}
           /\ \A ex \in DOMAIN per : per[ex].volume = RawVolume(ex)
           /\ out.global.volume = total
           /\ out.global.price_maker =
                 RDiv(SumOver(DOMAIN per,
                          [ex \in DOMAIN per |->
                              RMul(per[ex].price_maker, RawVolume(ex))]),
                      total)
           /\ out.global.price_taker =
                 RDiv(SumOver(DOMAIN per,
                          [ex \in DOMAIN per |->
                              RMul(per[ex].price_taker, RawVolume(ex))]),
                      total)
           /\ \A ex \in DOMAIN per :
                 /\ out.global.final_start_time <= per[ex].final_start_time
                 /\ out.global.final_end_time >= per[ex].final_end_time
           /\ \E ex \in DOMAIN per :
                 out.global.final_start_time = per[ex].final_start_time
           /\ \E ex \in DOMAIN per :
                 out.global.final_end_time = per[ex].final_end_time

\* A price was returned from two exchanges whose windows differ.
C23_Witness ==
    /\ vw.pc = "done"
    /\ vwap_out.some
    /\ DOMAIN vwap_out.val.exchange_price_with_volume_direct
          = {"Binance", "Coinbase"}
    /\ vwap_out.val.exchange_price_with_volume_direct["Binance"].final_end_time
          # vwap_out.val.exchange_price_with_volume_direct["Coinbase"].final_end_time
    /\ vwap_out.val.exchange_price_with_volume_direct["Binance"].price_maker
          # vwap_out.val.exchange_price_with_volume_direct["Coinbase"].price_maker

\* A price was returned although one exchange's only trade has amount zero:
\* that exchange was accumulated and has no per-exchange entry.
ZeroWeightSkipped ==
    /\ vw.pc = "done"
    /\ vwap_out.some
    /\ "Coinbase" \in DOMAIN vw.exchange_vxp
    /\ "Coinbase" \notin DOMAIN vwap_out.val.exchange_price_with_volume_direct

\* C27: the initial window bounds are computed without u64 underflow or
\* overflow for every block timestamp: the call does not abort, and the
\* window start is never greater than the block timestamp.
C27_InitialWindowWithinU64 ==
    /\ vw.pc # "panicked"
    /\ "walker" \in DOMAIN vw =>
          U64Le(vw.walker.min_timestamp, block_timestamp)

(***************************************************************************)
(* Claims about FlattenSpecified.                                          *)
(***************************************************************************)
\* What the iterator is to yield: every item that is not wanted, and the
\* elements of transform(item) for every wanted item.
RECURSIVE Expected(_)
Expected(items) ==
    IF items = <<>> THEN <<>>
    ELSE (IF Wanted(Head(items)).some
          THEN Transform(Wanted(Head(items)).val)
          ELSE <<Head(items)>>)
         \o Expected(Tail(items))

Count(seq, x) == Cardinality({i \in 1..Len(seq) : seq[i] = x})

\* C29: next() returns None only after the underlying iterator and the
\* pending buffer are both exhausted, and by then it has yielded every item
\* that is not wanted and every element of transform(item) of every wanted
\* item.
C29_EndsOnlyWhenExhausted ==
    fs_pc = "ended" =>
        /\ fs_iter = <<>>
        /\ fs_extra = <<>>
        /\ Len(fs_out) = Len(Expected(fs_items))
        /\ \A i \in 1..Len(fs_out) :
              Count(fs_out, fs_out[i]) = Count(Expected(fs_items), fs_out[i])

(***************************************************************************)
(* Claims about TokenProfits::compose.                                     *)
(***************************************************************************)
\* The largest amount to_compose holds for the key of entry p, if any.
OtherAmounts(p) ==
    {tp_other[j].amount : j \in {j \in 1..Len(tp_other) :
                                    SameKey(tp_other[j], p)}}

\* Entry i is the first entry of self.profits with its key.
FirstOfKey(i) == \A j \in 1..(i - 1) : ~SameKey(tp_old[j], tp_old[i])

\* C30: compose adds and removes no entry and changes no profit_collector,
\* token or usd_value; the first entry matching a key of to_compose gets
\* amount = max(old amount, to_compose's amount), every other entry is
\* unchanged; composing the same value a second time changes nothing.
C30_ComposeFrame ==
    /\ [](tp_calls >= 1 =>
            /\ Len(tp_self) = Len(tp_old)
            /\ \A i \in 1..Len(tp_old) :
                  /\ tp_self[i].profit_collector = tp_old[i].profit_collector
                  /\ tp_self[i].token = tp_old[i].token
                  /\ tp_self[i].usd_value = tp_old[i].usd_value
                  /\ tp_self[i].amount =
                        IF FirstOfKey(i) /\ OtherAmounts(tp_old[i]) # {}
                        THEN MaxInt(tp_old[i].amount,
                                    MaxOfSet(OtherAmounts(tp_old[i]), 0))
                        ELSE tp_old[i].amount)
    /\ [][tp_calls >= 1 => tp_self' = tp_self]_vars

\* Two entries of self share a key and to_compose holds a larger amount for
\* it: the first entry was raised, the second was not, and the second
\* compose left both.
C30_Witness ==
    /\ tp_calls = 2
    /\ Len(tp_old) = 2
    /\ SameKey(tp_old[1], tp_old[2])
    /\ tp_self[1].amount > tp_old[1].amount
    /\ tp_self[2].amount = tp_old[2].amount
    /\ tp_self[2].amount < tp_self[1].amount

====
